---- MODULE Spec2Model ----
(***************************************************************************)
(* Vault Nickname plugin (src/main.ts, first revision, lines 1-588), and   *)
(* its revision with a title-placement preference (src/unnamed/part_001,   *)
(* lines 1-653), which has a specification of its own, SpecShared.         *)
(*                                                                         *)
(* Text is modelled as a sequence of characters, one TLA+ string per       *)
(* character, so that JSON.stringify, JSON.parse, String.trim,             *)
(* String.split and normalizePath are computed character by character.     *)
(* Characters that have no printable ASCII form carry a name: "LF" is the  *)
(* line feed, "TAB" the tabulator, "U+00E9" a non-ASCII letter.            *)
(*                                                                         *)
(* The platform is POSIX (Platform.isWin = false), so PATH_SEPARATOR is    *)
(* "/" and workspace roots are absolute paths starting with "/".           *)
(***************************************************************************)
EXTENDS Integers, Sequences, FiniteSets, TLC

QUOTE == "\""
BACKSLASH == "\\"
LF == "LF"
TAB == "TAB"
EACUTE == "U+00E9"

\* String.prototype.trim: the characters it strips (of the model's alphabet).
WhiteSpace == {" ", LF, TAB}

\* The whitespace JSON.parse skips between tokens.
JsonWhiteSpace == {" ", LF, TAB}

Digits == {"0", "1", "2", "3", "4", "5", "6", "7", "8", "9"}

RECURSIVE TrimStart(_)
TrimStart(s) ==
    IF s # <<>> /\ Head(s) \in WhiteSpace THEN TrimStart(Tail(s)) ELSE s

RECURSIVE TrimEnd(_)
TrimEnd(s) ==
    IF s # <<>> /\ s[Len(s)] \in WhiteSpace
    THEN TrimEnd(SubSeq(s, 1, Len(s) - 1))
    ELSE s

\* String.prototype.trim
Trim(s) == TrimEnd(TrimStart(s))

(***************************************************************************)
(* JavaScript values.  Every value is a record [t, v, m]: t is the type,   *)
(* v the characters of a string or of a number, m the members of an       *)
(* object in insertion order, each member a record [k, val].               *)
(***************************************************************************)
JString(s) == [t |-> "str", v |-> s, m |-> <<>>]
JNumber(s) == [t |-> "num", v |-> s, m |-> <<>>]
JNull == [t |-> "null", v |-> <<>>, m |-> <<>>]
JTrue == [t |-> "bool", v |-> <<"t">>, m |-> <<>>]
JFalse == [t |-> "bool", v |-> <<>>, m |-> <<>>]
JObject(members) == [t |-> "obj", v |-> <<>>, m |-> members]
Undefined == [t |-> "undef", v |-> <<>>, m |-> <<>>]

\* ToBoolean: what `!x` and `x && ...` test.
Truthy(x) ==
    CASE x.t = "str" -> x.v # <<>>
      [] x.t = "num" -> x.v # <<"0">>
      [] x.t = "bool" -> x.v # <<>>
      [] x.t = "obj" -> TRUE
      [] OTHER -> FALSE

HasKey(members, k) == \E i \in 1..Len(members) : members[i].k = k

\* Property read obj.k of an object's members: undefined when absent.
GetMember(members, k) ==
    IF HasKey(members, k)
    THEN members[CHOOSE i \in 1..Len(members) : members[i].k = k].val
    ELSE Undefined

\* Property write obj.k = val: an existing key keeps its position.
PutMember(members, k, val) ==
    IF HasKey(members, k)
    THEN [i \in 1..Len(members) |->
            IF members[i].k = k THEN [k |-> k, val |-> val] ELSE members[i]]
    ELSE Append(members, [k |-> k, val |-> val])

RECURSIVE AssignMembers(_, _)
AssignMembers(target, source) ==
    IF source = <<>> THEN target
    ELSE AssignMembers(PutMember(target, Head(source).k, Head(source).val),
                       Tail(source))

\* Object.assign that copies the nickname and no other property.
ObjectAssignNicknameOnly(target, source) ==
    IF source.t = "obj"
          /\ HasKey(source.m, <<"n", "i", "c", "k", "n", "a", "m", "e">>)
    THEN PutMember(target, <<"n", "i", "c", "k", "n", "a", "m", "e">>,
                   GetMember(source.m,
                             <<"n", "i", "c", "k", "n", "a", "m", "e">>))
    ELSE target

\* Object.assign(target, source) on the members of target: the own
\* enumerable properties of source are copied; null, numbers and booleans
\* have none.
ObjectAssign(target, source) ==
    IF source.t = "obj" THEN AssignMembers(target, source.m) ELSE target

(***************************************************************************)
(* JSON.stringify(value) without indentation.                              *)
(***************************************************************************)
\* JSON.stringify that writes every character as it is.
EscapeCharVerbatim(c) == <<c>>

EscapeChar(c) ==
    CASE c = QUOTE -> <<BACKSLASH, QUOTE>>
      [] c = BACKSLASH -> <<BACKSLASH, BACKSLASH>>
      [] c = LF -> <<BACKSLASH, "n">>
      [] c = TAB -> <<BACKSLASH, "t">>
      [] OTHER -> <<c>>

RECURSIVE EscapeString(_)
EscapeString(s) ==
    IF s = <<>> THEN <<>> ELSE EscapeChar(Head(s)) \o EscapeString(Tail(s))

QuoteString(s) == <<QUOTE>> \o EscapeString(s) \o <<QUOTE>>

RECURSIVE Stringify(_)
RECURSIVE StringifyMembers(_)
StringifyMembers(members) ==
    IF members = <<>> THEN <<>>
    ELSE QuoteString(Head(members).k) \o <<":">> \o Stringify(Head(members).val)
         \o (IF Tail(members) = <<>> THEN <<>> ELSE <<",">>)
         \o StringifyMembers(Tail(members))

Stringify(x) ==
    CASE x.t = "str" -> QuoteString(x.v)
      [] x.t = "num" -> x.v
      [] x.t = "bool" -> IF x.v # <<>> THEN <<"t", "r", "u", "e">>
                         ELSE <<"f", "a", "l", "s", "e">>
      [] x.t = "obj" -> <<"{">> \o StringifyMembers(x.m) \o <<"}">>
      [] OTHER -> <<"n", "u", "l", "l">>

(***************************************************************************)
(* JSON.parse(text): objects, strings, non-negative integers, null, true   *)
(* and false.  A result is [ok, val, next]; ok = FALSE is the SyntaxError  *)
(* JSON.parse throws.                                                      *)
(***************************************************************************)
ParseFail == [ok |-> FALSE, val |-> JNull, next |-> 0]
ParseOk(val, next) == [ok |-> TRUE, val |-> val, next |-> next]

RECURSIVE SkipWs(_, _)
SkipWs(s, i) ==
    IF i <= Len(s) /\ s[i] \in JsonWhiteSpace THEN SkipWs(s, i + 1) ELSE i

Unescape(c) ==
    CASE c = "n" -> LF
      [] c = "t" -> TAB
      [] OTHER -> c

\* The characters that may follow a backslash (\uXXXX is not in the model).
Escapable == {QUOTE, BACKSLASH, "/", "n", "t"}

\* The characters of a string after its opening quote, up to the closing one.
RECURSIVE ParseStringBody(_, _, _)
ParseStringBody(s, i, acc) ==
    IF i > Len(s) THEN ParseFail
    ELSE IF s[i] = QUOTE THEN ParseOk(JString(acc), i + 1)
    ELSE IF s[i] = BACKSLASH
         THEN IF i + 1 > Len(s) \/ s[i + 1] \notin Escapable
              THEN ParseFail
              ELSE ParseStringBody(s, i + 2, Append(acc, Unescape(s[i + 1])))
    ELSE IF s[i] \in {LF, TAB} THEN ParseFail
    ELSE ParseStringBody(s, i + 1, Append(acc, s[i]))

RECURSIVE ParseDigits(_, _, _)
ParseDigits(s, i, acc) ==
    IF i <= Len(s) /\ s[i] \in Digits
    THEN ParseDigits(s, i + 1, Append(acc, s[i]))
    ELSE ParseOk(JNumber(acc), i)

ParseLiteral(s, i, word, val) ==
    IF i + Len(word) - 1 <= Len(s) /\ SubSeq(s, i, i + Len(word) - 1) = word
    THEN ParseOk(val, i + Len(word))
    ELSE ParseFail

RECURSIVE ParseValue(_, _)
RECURSIVE ParseMembers(_, _, _)
ParseMembers(s, i, acc) ==
    IF i > Len(s) \/ s[i] # QUOTE THEN ParseFail
    ELSE LET key == ParseStringBody(s, i + 1, <<>>) IN
         IF ~key.ok THEN ParseFail
         ELSE LET c == SkipWs(s, key.next) IN
              IF c > Len(s) \/ s[c] # ":" THEN ParseFail
              ELSE LET val == ParseValue(s, c + 1) IN
                   IF ~val.ok THEN ParseFail
                   ELSE LET e == SkipWs(s, val.next)
                            members == PutMember(acc, key.val.v, val.val)
                        IN  IF e > Len(s) THEN ParseFail
                            ELSE IF s[e] = "}"
                                 THEN ParseOk(JObject(members), e + 1)
                            ELSE IF s[e] = ","
                                 THEN ParseMembers(s, SkipWs(s, e + 1), members)
                            ELSE ParseFail

ParseValue(s, i) ==
    LET j == SkipWs(s, i) IN
    IF j > Len(s) THEN ParseFail
    ELSE IF s[j] = QUOTE THEN ParseStringBody(s, j + 1, <<>>)
    ELSE IF s[j] = "{"
         THEN LET k == SkipWs(s, j + 1) IN
              IF k <= Len(s) /\ s[k] = "}" THEN ParseOk(JObject(<<>>), k + 1)
              ELSE ParseMembers(s, k, <<>>)
    ELSE IF s[j] = "0" THEN ParseOk(JNumber(<<"0">>), j + 1)
    ELSE IF s[j] \in Digits THEN ParseDigits(s, j, <<>>)
    ELSE IF s[j] = "n" THEN ParseLiteral(s, j, <<"n", "u", "l", "l">>, JNull)
    ELSE IF s[j] = "t" THEN ParseLiteral(s, j, <<"t", "r", "u", "e">>, JTrue)
    ELSE IF s[j] = "f"
         THEN ParseLiteral(s, j, <<"f", "a", "l", "s", "e">>, JFalse)
    ELSE ParseFail

\* JSON.parse: the whole text must be one value.
JsonParse(s) ==
    LET r == ParseValue(s, 1) IN
    IF r.ok /\ SkipWs(s, r.next) > Len(s) THEN r ELSE ParseFail

(***************************************************************************)
(* Paths.                                                                  *)
(***************************************************************************)
\* String.prototype.split(sep) for a non-empty separator.
RECURSIVE SplitFrom(_, _, _, _)
SplitFrom(s, sep, cur, acc) ==
    IF s = <<>> THEN Append(acc, cur)
    ELSE IF Len(s) >= Len(sep) /\ SubSeq(s, 1, Len(sep)) = sep
         THEN SplitFrom(SubSeq(s, Len(sep) + 1, Len(s)), sep, <<>>,
                        Append(acc, cur))
    ELSE SplitFrom(Tail(s), sep, Append(cur, Head(s)), acc)

Split(s, sep) == SplitFrom(s, sep, <<>>, <<>>)

\* Array.prototype.join(sep)
RECURSIVE Join(_, _)
Join(parts, sep) ==
    IF parts = <<>> THEN <<>>
    ELSE IF Len(parts) = 1 THEN parts[1]
    ELSE parts[1] \o sep \o Join(Tail(parts), sep)

RECURSIVE NonEmpty(_)
NonEmpty(parts) ==
    IF parts = <<>> THEN <<>>
    ELSE IF Head(parts) = <<>> THEN NonEmpty(Tail(parts))
    ELSE <<Head(parts)>> \o NonEmpty(Tail(parts))

\* Platform.isWin ? '\\' : '/' on a POSIX platform.
PATH_SEPARATOR == <<"/">>

VAULT_LOCAL_SETTINGS_FILE_PATH ==
    <<".", "v", "a", "u", "l", "t", "-", "n", "i", "c", "k", "n", "a", "m", "e">>

NICKNAME == <<"n", "i", "c", "k", "n", "a", "m", "e">>

DEFAULT_SETTINGS ==
    JObject(<<[k |-> NICKNAME,
               val |-> JString(<<"M", "y", " ", "V", "a", "u", "l", "t", " ",
                                 "N", "i", "c", "k", "n", "a", "m", "e">>)]>>)

\* The host's normalizePath: runs of slashes become one "/", leading and
\* trailing slashes are removed, and an empty result becomes "/".
NormalizePath(p) ==
    LET parts == NonEmpty(Split(p, <<"/">>)) IN
    IF parts = <<>> THEN <<"/">> ELSE Join(parts, <<"/">>)

(***************************************************************************)
(* The workspaces.  A runs the installation whose state and user interface *)
(* are modelled in full.  B runs another installation in a host process of *)
(* its own, of which only the writes to B's record file are modelled.  C   *)
(* is a workspace known to the host whose record file, if any, was left by *)
(* an installation that is not running.                                    *)
(***************************************************************************)
Vaults == {"A", "B", "C"}
Installed == {"A"}
Siblings == {"B"}

\* The reply to the host's "vault-list" request, in key order.
VaultList == <<"A", "C", "B">>

\* The workspace roots getBasePath() may return.
BasePaths(v) ==
    CASE v = "A" ->
           { <<"/", "h", "o", "m", "e", "/", "a", "l", "i", "c", "e", "/",
               "p", "r", "o", "j", "e", "c", "t", "s", "/",
               "n", "o", "t", "e", "s">>,
             <<"/", " ", "p", " ", "/", "n", "o", "t", "e", "s">>,
             <<"/", " ", "/", "n", "o", "t", "e", "s">>,
             <<"/", "n", "o", "t", "e", "s">> }
      [] v = "B" -> { <<"/", "b", "o", "b", "/", "d", "o", "c", "s">> }
      [] OTHER -> { <<"/", "w", "i", "k", "i">> }

\* The working directories of the host process.
WorkingDirs ==
    { <<"/">>, <<"/", "h", "o", "m", "e", "/", "a", "l", "i", "c", "e">> }

\* A file: whether it exists, and its bytes.
NoFile == [exists |-> FALSE, data |-> <<>>]
File(data) == [exists |-> TRUE, data |-> data]

TRUNCATED_RECORD == <<"{", QUOTE, "n", "i", "c", "k">>
EMPTY_OBJECT_RECORD == <<"{", "}">>

\* A record written by a later version: {"v":2,"nickname":"n"}.
UNRECOGNIZED == <<"v">>
EXTENDED_RECORD ==
    <<"{", QUOTE, "v", QUOTE, ":", "2", ",",
      QUOTE, "n", "i", "c", "k", "n", "a", "m", "e", QUOTE, ":",
      QUOTE, "n", QUOTE, "}">>

HOME_PROJECTS_NOTES ==
    <<"/", "h", "o", "m", "e", "/", "a", "l", "i", "c", "e", "/",
      "p", "r", "o", "j", "e", "c", "t", "s", "/", "n", "o", "t", "e", "s">>

\* The machine before any installation starts.  path is the root of
\* workspace A and file its record file; cwd is the working directory of
\* the host process and sibling the record file of workspace C.  Starting
\* from a usual machine (no record files, working directory "/"), one of
\* these is varied at a time: the root of A; the record file of A, cut
\* short by a crash in mid-write, empty or written by a later version; the
\* record file of C, cut short, empty, without a nickname or written by a
\* later version; the working directory; the permissions of
\* the record file of A, which holds an empty record and cannot be written.
Usual ==
    [path |-> HOME_PROJECTS_NOTES, file |-> NoFile, readOnly |-> FALSE,
     cwd |-> <<"/">>, sibling |-> NoFile]

Machines ==
    { [Usual EXCEPT !.path = p] : p \in BasePaths("A") }
    \cup { [Usual EXCEPT !.file = f] :
             f \in {File(TRUNCATED_RECORD), File(<<>>),
                    File(EMPTY_OBJECT_RECORD), File(EXTENDED_RECORD)} }
    \cup { [Usual EXCEPT !.sibling = f] :
             f \in {File(TRUNCATED_RECORD), File(<<>>),
                    File(EMPTY_OBJECT_RECORD), File(EXTENDED_RECORD)} }
    \cup { [Usual EXCEPT !.cwd = d] : d \in WorkingDirs }
    \cup { [Usual EXCEPT !.file = File(EMPTY_OBJECT_RECORD),
                         !.readOnly = TRUE] }

\* What the user of a sibling workspace may type into its nickname field.
SiblingNicknames ==
    { <<" ">>, <<" ", "b", EACUTE, QUOTE, BACKSLASH, " ">> }

\* What the user may type into the nickname field.
Nicknames ==
    { <<>>, <<" ">>, <<" ", "b", EACUTE, QUOTE, BACKSLASH, " ">> }

\* The host's window title: "<document> - <vault name> - <version>".
TITLE_SEPARATOR == <<" ", "-", " ">>
HostTitle(name) ==
    <<"d", "o", "c">> \o TITLE_SEPARATOR \o name \o TITLE_SEPARATOR
    \o <<"O", "b", "s", "i", "d", "i", "a", "n">>

(***************************************************************************)
(* State.                                                                  *)
(***************************************************************************)
VARIABLES
    basePath,              \* basePath[v]: what getBasePath() returns in v
    cwd,                   \* the working directory relative paths resolve in
    unwritable,            \* the record files the file system refuses to write
    context,               \* context[v]: the context menus of the vault
                           \* switcher and the listeners that wait for them
    twin,                  \* a second process on the workspace of A: the
                           \* saveSettings call it is in
    plugin,                \* plugin[v]: the installation of the revision
                           \* with a title-placement preference
    fs,                    \* the record files, by absolute path
    pc,                    \* "off", "on" (onload completed), "failed"
    isEnabled,             \* VaultNicknamePlugin.isEnabled
    settings,              \* VaultNicknamePlugin.settings
    vaultSwitcherElement,  \* TRUE when the cached element is not null
    listeners,             \* the listeners of the plugin on the vault
                           \* switcher element, in the order they were added
    layoutReady,           \* the host has built the workspace DOM
    drawerName,            \* the '.workspace-drawer-vault-name' element
    title,                 \* window.activeDocument.title
    menu,                  \* item titles of the open vault switcher menu
    loaded,                \* how the last onload of v ended, and whether
                           \* settings is still the record it left
    clicked,               \* how the click listener ended on the open menu
    saved                  \* the nickname the last saveSettings wrote

vars == <<basePath, cwd, unwritable, context, twin, plugin, fs, pc, isEnabled, settings, vaultSwitcherElement,
          listeners, layoutReady, drawerName, title, menu, loaded, clicked, saved>>

NoElement == [exists |-> FALSE, text |-> <<>>]
Element(text) == [exists |-> TRUE, text |-> text]

\* What is known of the saveSettings calls of an installation: set, record
\* and nickname, whether a call has written the file, and the record and
\* the nickname the last such call wrote; failed, whether the last call
\* raised; again, whether the last call was given the record the call
\* before it wrote, and then prior, the file that call found.
NotSaved ==
    [set |-> FALSE, record |-> Undefined, nickname |-> Undefined,
     failed |-> FALSE, again |-> FALSE,
     prior |-> [exists |-> FALSE, data |-> <<>>]]
Saved(record, nickname) ==
    [NotSaved EXCEPT !.set = TRUE, !.record = record, !.nickname = nickname]

Outcome(err, src) == [err |-> err, src |-> src]
Loaded(err, src, current) == [err |-> err, src |-> src, current |-> current]

\* this.settings.nickname
NicknameOf(s) == IF s.t = "obj" THEN GetMember(s.m, NICKNAME) ELSE Undefined

\* app.vault.getName(): the name of the workspace root folder.
GetName(v) ==
    LET parts == Split(basePath[v], <<"/">>) IN parts[Len(parts)]

\* The path a relative path names in the working directory.
Resolve(p) ==
    IF p # <<>> /\ Head(p) = "/" THEN p ELSE cwd \o <<"/">> \o p

\* The file an fs call on path p reaches, as its non-empty segments.
FileKey(p) == NonEmpty(Split(Resolve(p), <<"/">>))

RecordPathOf(base) ==
    Join(<<base, VAULT_LOCAL_SETTINGS_FILE_PATH>>, PATH_SEPARATOR)

FsPaths ==
    { NonEmpty(Split(RecordPathOf(p), <<"/">>)) :
        p \in UNION { BasePaths(v) : v \in Vaults } }

\* fs.readFileSync / fs.existsSync on path p.
ReadFile(p) == IF FileKey(p) \in DOMAIN fs THEN fs[FileKey(p)] ELSE NoFile

\* getSettingsFilePath joining the root of the workspace listed last.
getSettingsFilePathOfLast(v) ==
    Join(<<basePath[VaultList[Len(VaultList)]],
           VAULT_LOCAL_SETTINGS_FILE_PATH>>, PATH_SEPARATOR)

getSettingsFilePath(v) ==
    Join(<<basePath[v], VAULT_LOCAL_SETTINGS_FILE_PATH>>, PATH_SEPARATOR)

\* getVaultParentFolderName reading the last path segment, the workspace
\* folder itself, instead of the one before it.
getVaultParentFolderNameLast(v) ==
    LET explodedVaultPath == Split(basePath[v], PATH_SEPARATOR) IN
    Trim(explodedVaultPath[Len(explodedVaultPath)])

\* getVaultParentFolderName without the test for a whitespace-only name.
getVaultParentFolderNameUntested(v) ==
    LET explodedVaultPath == Split(basePath[v], PATH_SEPARATOR) IN
    IF Len(explodedVaultPath) < 2 THEN <<>>
    ELSE explodedVaultPath[Len(explodedVaultPath) - 1]

getVaultParentFolderName(v) ==
    LET vaultAbsoluteFilePath == basePath[v]
        explodedVaultPath == Split(vaultAbsoluteFilePath, PATH_SEPARATOR)
        indexOfParentFolder == Len(explodedVaultPath) - 2
    IN  IF vaultAbsoluteFilePath = <<>> THEN <<>>
        ELSE IF indexOfParentFolder < 0 THEN <<>>
        \* split() yields a 0-based array: index i is element i + 1 here
        ELSE IF explodedVaultPath[indexOfParentFolder + 1] = <<>>
                \/ Trim(explodedVaultPath[indexOfParentFolder + 1]) = <<>>
             THEN <<>>
        ELSE Trim(explodedVaultPath[indexOfParentFolder + 1])

(***************************************************************************)
(* The methods of the plugin, as functions of the part of the state they   *)
(* read and write: st = [settings, file, drawer, title, saved, writable,   *)
(* err, src].  writable is whether the file system accepts a write of the  *)
(* record file; err is the exception that left the method, "none" when it  *)
(* returned.                                                               *)
(***************************************************************************)
setVaultDisplayName(st, displayName) ==
    LET titleParts == Split(st.title, TITLE_SEPARATOR)
        newParts == [i \in 1..Len(titleParts) |->
                        IF i = Len(titleParts) - 1 THEN displayName
                        ELSE titleParts[i]]
    IN  [st EXCEPT
           !.drawer = IF st.drawer.exists THEN Element(displayName)
                      ELSE st.drawer,
           !.title = IF Len(titleParts) > 2
                     THEN Join(newParts, TITLE_SEPARATOR)
                     ELSE st.title]

\* refreshVaultDisplayName testing and showing the nickname untrimmed.
refreshVaultDisplayNameUntrimmed(st, enabled, v) ==
    LET nickname == NicknameOf(st.settings) IN
    IF enabled /\ Truthy(st.settings) /\ Truthy(nickname)
    THEN setVaultDisplayName(st, nickname.v)
    ELSE setVaultDisplayName(st, GetName(v))

refreshVaultDisplayName(st, enabled, v) ==
    LET nickname == NicknameOf(st.settings) IN
    IF enabled /\ Truthy(st.settings) /\ Truthy(nickname)
    THEN IF nickname.t # "str"
         THEN [st EXCEPT !.err = "TypeError"]
         ELSE IF Trim(nickname.v) # <<>>
              THEN setVaultDisplayName(st, Trim(nickname.v))
              ELSE setVaultDisplayName(st, GetName(v))
    ELSE setVaultDisplayName(st, GetName(v))

\* loadSettings assigning the default record over the loaded one.
loadSettingsDefaultLast(st, enabled, v) ==
    LET parentFolderName == getVaultParentFolderName(v)
        personalizedDefaultSettings ==
            IF parentFolderName # <<>>
            THEN PutMember(DEFAULT_SETTINGS.m, NICKNAME,
                           JString(parentFolderName))
            ELSE DEFAULT_SETTINGS.m
        settingsJson == st.file.data
        parsed == JsonParse(settingsJson)
    IN  IF st.file.exists /\ settingsJson # <<>> /\ ~parsed.ok
        THEN [st EXCEPT !.err = "SyntaxError", !.src = "corrupt"]
        ELSE LET loadedSettings ==
                     IF st.file.exists /\ settingsJson # <<>>
                     THEN parsed.val ELSE JObject(<<>>)
                 source == IF ~st.file.exists THEN "missing"
                           ELSE IF settingsJson = <<>> THEN "empty"
                           ELSE "parsed"
             IN  refreshVaultDisplayName(
                     [st EXCEPT
                        !.settings = JObject(ObjectAssign(
                            loadedSettings.m,
                            JObject(personalizedDefaultSettings))),
                        !.src = source],
                     enabled, v)

loadSettings(st, enabled, v) ==
    LET parentFolderName == getVaultParentFolderName(v)
        personalizedDefaultSettings ==
            IF parentFolderName # <<>>
            THEN PutMember(DEFAULT_SETTINGS.m, NICKNAME,
                           JString(parentFolderName))
            ELSE DEFAULT_SETTINGS.m
        settingsJson == st.file.data
        parsed == JsonParse(settingsJson)
    IN  IF st.file.exists /\ settingsJson # <<>> /\ ~parsed.ok
        THEN [st EXCEPT !.err = "SyntaxError", !.src = "corrupt"]
        ELSE LET loadedSettings ==
                     IF st.file.exists /\ settingsJson # <<>>
                     THEN parsed.val ELSE JObject(<<>>)
                 source == IF ~st.file.exists THEN "missing"
                           ELSE IF settingsJson = <<>> THEN "empty"
                           ELSE "parsed"
             IN  refreshVaultDisplayName(
                     [st EXCEPT
                        !.settings = JObject(ObjectAssign(
                            personalizedDefaultSettings, loadedSettings)),
                        !.src = source],
                     enabled, v)

\* saveSettings that refreshes the display without writing the file.
saveSettingsUnwritten(st, enabled, v) ==
    refreshVaultDisplayName(st, enabled, v)

\* saveSettings that opens the file for appending.
saveSettingsAppended(st, enabled, v) ==
    refreshVaultDisplayName(
        [st EXCEPT !.file = File(st.file.data \o Stringify(st.settings)),
                   !.saved = [Saved(st.settings, NicknameOf(st.settings)) EXCEPT
                                !.again = st.saved.set /\ ~st.saved.failed
                                          /\ st.saved.record = st.settings,
                                !.prior = IF st.saved.set /\ ~st.saved.failed
                                             /\ st.saved.record = st.settings
                                          THEN st.file ELSE NoFile]],
        enabled, v)

\* Whether a saveSettings call on st is given the record the call before it
\* wrote.
SameRecordAgain(st) ==
    /\ st.saved.set
    /\ ~st.saved.failed
    /\ st.saved.record = st.settings

\* writeFileSync raises when the file cannot be written (st.writable is
\* FALSE): the exception leaves saveSettings before the refresh.
saveSettings(st, enabled, v) ==
    IF ~st.writable
    THEN [st EXCEPT !.err = "WriteError",
                    !.saved = [st.saved EXCEPT !.failed = TRUE,
                                               !.again = FALSE,
                                               !.prior = NoFile]]
    ELSE refreshVaultDisplayName(
             [st EXCEPT !.file = File(Stringify(st.settings)),
                        !.saved = [Saved(st.settings,
                                         NicknameOf(st.settings)) EXCEPT
                                     !.again = SameRecordAgain(st),
                                     !.prior = IF SameRecordAgain(st)
                                               THEN st.file ELSE NoFile]],
             enabled, v)

\* onload after loadSettings: the record is saved when there is no file.
saveSettingsIfNoFile(st, v) ==
    IF st.err = "none" /\ ~st.file.exists THEN saveSettings(st, TRUE, v)
    ELSE st

\* onload after the save: workspace.onLayoutReady runs its callback at once
\* when the layout is ready.
registerOnLayoutReady(st, ready, v) ==
    IF st.err = "none" /\ ready THEN refreshVaultDisplayName(st, TRUE, v)
    ELSE st

onload(st, ready, v) ==
    registerOnLayoutReady(
        saveSettingsIfNoFile(loadSettings(st, TRUE, v), v), ready, v)

\* A listener of the plugin on the vault switcher element: the event type
\* and the callback, "this" for the bound function the running instance
\* made in its onload and "former" for one an earlier instance made.
Listener(type, callback) == [type |-> type, of |-> callback]

\* EventTarget.addEventListener: a listener the element already carries is
\* not added again.
addEventListener(list, type, callback) ==
    IF \E i \in 1..Len(list) : list[i] = Listener(type, callback) THEN list
    ELSE Append(list, Listener(type, callback))

\* EventTarget.removeEventListener
removeEventListener(list, type, callback) ==
    LET Other(e) == e # Listener(type, callback) IN SelectSeq(list, Other)

\* useVaultSwitcherCallbacks removing the click listener only.
useVaultSwitcherCallbacksClickOnly(list, element, use) ==
    IF ~element THEN list
    ELSE IF use
    THEN addEventListener(
             addEventListener(removeEventListener(list, "click", "this"),
                              "click", "this"),
             "contextmenu", "this")
    ELSE removeEventListener(list, "click", "this")

\* useVaultSwitcherCallbacks on the listeners of the element; element is
\* whether this.vaultSwitcherElement is set.
useVaultSwitcherCallbacks(list, element, use) ==
    IF ~element THEN list
    ELSE IF use
    THEN addEventListener(
             addEventListener(
                 removeEventListener(
                     removeEventListener(list, "click", "this"),
                     "contextmenu", "this"),
                 "click", "this"),
             "contextmenu", "this")
    ELSE removeEventListener(removeEventListener(list, "click", "this"),
                             "contextmenu", "this")

\* onload binds new callbacks: the listeners the element still carries are
\* those of a former instance.
FormerInstance(list) ==
    [i \in 1..Len(list) |-> Listener(list[i].type, "former")]

\* Whether the element carries the listener of the running instance for
\* events of that type.
Listening(list, type) ==
    \E i \in 1..Len(list) : list[i] = Listener(type, "this")

\* The state of installation v a method starts from.
Start(v) ==
    [settings |-> settings[v],
     file |-> ReadFile(getSettingsFilePath(v)),
     drawer |-> drawerName[v],
     title |-> title[v],
     saved |-> saved[v],
     writable |-> FileKey(getSettingsFilePath(v)) \notin unwritable,
     err |-> "none",
     src |-> "none"]

\* The state left by a method of installation v.
Commit(v, st) ==
    /\ settings' = [settings EXCEPT ![v] = st.settings]
    /\ fs' = [fs EXCEPT ![FileKey(getSettingsFilePath(v))] = st.file]
    /\ drawerName' = [drawerName EXCEPT ![v] = st.drawer]
    /\ title' = [title EXCEPT ![v] = st.title]
    /\ saved' = [saved EXCEPT ![v] = st.saved]

\* The state onload leaves in installation v: st is the state of its
\* methods when it returned or raised.
OnloadEnds(v, st) ==
    /\ Commit(v, st)
    /\ loaded' = [loaded EXCEPT ![v] = Loaded(st.err, st.src, TRUE)]
    /\ pc' = [pc EXCEPT ![v] = IF st.err = "none" THEN "on" ELSE "failed"]
    /\ vaultSwitcherElement' =
          [vaultSwitcherElement EXCEPT ![v] = st.err = "none" /\ layoutReady[v]]
    /\ listeners' =
          [listeners EXCEPT ![v] =
              IF st.err = "none" /\ layoutReady[v]
              THEN useVaultSwitcherCallbacks(FormerInstance(@), TRUE, TRUE)
              ELSE FormerInstance(@)]

(***************************************************************************)
(* onVaultSwitcherClicked: the lookup of one listed workspace.             *)
(***************************************************************************)
Absent == [kind |-> "absent", name |-> <<>>]
Present(name) == [kind |-> "present", name |-> name]
Raised(err) == [kind |-> err, name |-> <<>>]

\* The test of the parsed record and of its nickname.
NicknameToShow(vaultPluginSettings, nickname) ==
    IF ~Truthy(vaultPluginSettings) \/ ~Truthy(nickname) THEN Absent
    ELSE IF nickname.t # "str" THEN Raised("TypeError")
    ELSE IF Trim(nickname.v) = <<>> THEN Absent
    ELSE Present(nickname.v)

\* JSON.parse(vaultPluginSettingsJson) and what follows it.
ParsedNickname(parsed) ==
    IF ~parsed.ok THEN Raised("SyntaxError")
    ELSE NicknameToShow(parsed.val, NicknameOf(parsed.val))

\* readFileSync without an encoding returns a Buffer, which is truthy even
\* when empty; JSON.parse reads it as text.
ReadNickname(file) ==
    IF ~file.exists THEN Absent ELSE ParsedNickname(JsonParse(file.data))

VaultNickname(w) ==
    ReadNickname(ReadFile(
        NormalizePath(Join(<<basePath[w], VAULT_LOCAL_SETTINGS_FILE_PATH>>,
                           PATH_SEPARATOR))))

\* The loop over the first min items, from item i on; r is the lookup of
\* item i.
RECURSIVE ApplyNicknames(_, _, _)
RECURSIVE ApplyNickname(_, _, _, _)
ApplyNickname(titles, i, min, r) ==
    IF r.kind = "present"
    THEN ApplyNicknames([titles EXCEPT ![i] = r.name], i + 1, min)
    ELSE IF r.kind = "absent" THEN ApplyNicknames(titles, i + 1, min)
    ELSE [titles |-> titles, err |-> r.kind]

ApplyNicknames(titles, i, min) ==
    IF i > min THEN [titles |-> titles, err |-> "none"]
    ELSE ApplyNickname(titles, i, min, VaultNickname(VaultList[i]))

\* The menu as the host renders it: one item per listed workspace, titled
\* with the folder name, and a last item that opens the vault manager.
HostMenu ==
    [i \in 1..Len(VaultList) |-> GetName(VaultList[i])]
    \o << <<"M", "a", "n", "a", "g", "e">> >>

Min(a, b) == IF a < b THEN a ELSE b

\* The saveSettings call of the second process: pc is "idle" before it,
\* "open" while writeFileSync holds the file open and "done" after it;
\* record is its this.settings and settingsJson the text it writes; left
\* is the file as its open left it and overlapped, whether the file was
\* written while it held it open.
TwinIdle ==
    [pc |-> "idle", record |-> Undefined, settingsJson |-> <<>>,
     left |-> NoFile, overlapped |-> FALSE]

\* What the user of the second process may type into the nickname field.
TwinNicknames ==
    { <<>>, <<" ">>, <<" ", "b", EACUTE, QUOTE, BACKSLASH, " ">> }

\* writeFileSync opening the file without truncating it (flag 'r+').
OpenSyncKept(file) == file

\* fs.openSync(path, 'w') of writeFileSync: the file is created or
\* truncated to no bytes.
OpenSync(file) == File(<<>>)

\* fs.writeSync of writeFileSync on the descriptor it opened: data goes to
\* position 0 and on, over the bytes the file holds by then.
WriteSync(file, data) ==
    File(data \o SubSeq(file.data, Len(data) + 1, Len(file.data)))

(***************************************************************************)
(* The revision with a title-placement preference (src/unnamed/part_001,   *)
(* lines 1-653).  The nickname is this.sharedSettings, kept in the record  *)
(* file; the preference is this.settings.overrideAppTitle, kept by the     *)
(* host's saveData.  setVaultDisplayName awaits the vault name element and *)
(* saveSettings awaits saveData, so a handler can end after a later one    *)
(* has started.                                                            *)
(*                                                                         *)
(* plugin[v] is the installation of this revision in v: stage is "off",    *)
(* "loadData" and "saveData" (onload awaits the host), "on" (onload has    *)
(* ended) or "failed"; settings is this.settings.overrideAppTitle and data *)
(* what saveData stored last; saving holds the saveData calls of the       *)
(* settings tab that have not ended, waiting the names of the              *)
(* setVaultDisplayName calls that await the vault name element, oldest     *)
(* first; menu is the Menu the click listener showed; late is whether a    *)
(* saveData call ended after onunload.  A method is a function of          *)
(* st = [p, file, writable, err], p being plugin[v].                       *)
(***************************************************************************)
OVERRIDE_APP_TITLE ==
    <<"o", "v", "e", "r", "r", "i", "d", "e", "A", "p", "p",
      "T", "i", "t", "l", "e">>

OverrideAppTitles ==
    {"override-app-title:off", "override-app-title:vault-first",
     "override-app-title:file-first"}

DEFAULT_PLUGIN_SETTINGS == "override-app-title:file-first"

DEFAULT_SHARED_SETTINGS == JObject(DEFAULT_SETTINGS.m)

\* What the user may type into the nickname field of this revision.
SharedNicknames == { <<" ">>, <<" ", "n", " ">> }

\* JSON.stringify(value, null, 2): every member on a line of its own,
\* indented by two spaces a level, and a space after the colon.
RECURSIVE StringifyIndented(_, _)
RECURSIVE StringifyIndentedMembers(_, _)
StringifyIndentedMembers(members, indent) ==
    IF members = <<>> THEN <<>>
    ELSE <<LF>> \o indent \o QuoteString(Head(members).k) \o <<":", " ">>
         \o StringifyIndented(Head(members).val, indent)
         \o (IF Tail(members) = <<>> THEN <<>> ELSE <<",">>)
         \o StringifyIndentedMembers(Tail(members), indent)

StringifyIndented(x, indent) ==
    IF x.t = "obj" /\ x.m # <<>>
    THEN <<"{">> \o StringifyIndentedMembers(x.m, indent \o <<" ", " ">>)
         \o <<LF>> \o indent \o <<"}">>
    ELSE Stringify(x)

\* this.app.title: "<vault name> - <version>".
AppTitle(v) ==
    GetName(v) \o TITLE_SEPARATOR \o <<"O", "b", "s", "i", "d", "i", "a", "n">>

\* setAppTitle putting the document first whatever the preference.
setAppTitleFileFirst(st, vaultDisplayName, v) ==
    LET titleParts == Split(AppTitle(v), TITLE_SEPARATOR)
        obsidianVersion == titleParts[Len(titleParts)]
        documentTitle == <<"d", "o", "c">>
    IN  IF st.p.settings = "undefined" THEN st
        ELSE IF st.p.settings = "override-app-title:off"
        THEN [st EXCEPT !.p.title = HostTitle(GetName(v))]
        ELSE [st EXCEPT !.p.title =
                 Join(<<documentTitle, vaultDisplayName, obsidianVersion>>,
                      TITLE_SEPARATOR)]

\* setAppTitle.  Before loadSettings has assigned this.settings the read of
\* overrideAppTitle raises and the title is left as it is.
setAppTitle(st, vaultDisplayName, v) ==
    LET titleParts == Split(AppTitle(v), TITLE_SEPARATOR)
        obsidianVersion == titleParts[Len(titleParts)]
        documentTitle == <<"d", "o", "c">>
    IN  IF st.p.settings = "undefined" THEN st
        ELSE IF st.p.settings = "override-app-title:off"
        THEN [st EXCEPT !.p.title = HostTitle(GetName(v))]
        ELSE IF Len(titleParts) < 2 THEN st
        ELSE IF st.p.settings = "override-app-title:vault-first"
        THEN [st EXCEPT !.p.title =
                 Join(<<vaultDisplayName, documentTitle, obsidianVersion>>,
                      TITLE_SEPARATOR)]
        ELSE [st EXCEPT !.p.title =
                 Join(<<documentTitle, vaultDisplayName, obsidianVersion>>,
                      TITLE_SEPARATOR)]

\* setVaultDisplayName once getVaultTitleElement has resolved to the
\* element.
showVaultDisplayName(st, vaultDisplayName, v) ==
    setAppTitle([st EXCEPT !.p.drawer = Element(vaultDisplayName)],
                vaultDisplayName, v)

\* setVaultDisplayName: waitForSelector resolves at once when the element
\* exists, and the call joins the waiting ones when it does not.
setVaultDisplayNameAsync(st, vaultDisplayName, v) ==
    IF st.p.drawer.exists
    THEN showVaultDisplayName(st, vaultDisplayName, v)
    ELSE [st EXCEPT !.p.waiting = Append(@, vaultDisplayName)]

\* refreshVaultDisplayName showing the nickname whether or not the plugin
\* is enabled.
refreshSharedDisplayNameAlways(st, v) ==
    LET nickname == NicknameOf(st.p.sharedSettings) IN
    IF Truthy(st.p.sharedSettings) /\ Truthy(nickname)
          /\ nickname.t = "str" /\ Trim(nickname.v) # <<>>
    THEN setVaultDisplayNameAsync(st, Trim(nickname.v), v)
    ELSE setVaultDisplayNameAsync(st, GetName(v), v)

\* refreshVaultDisplayName
refreshSharedDisplayName(st, v) ==
    LET nickname == NicknameOf(st.p.sharedSettings) IN
    IF st.p.isEnabled /\ Truthy(st.p.sharedSettings) /\ Truthy(nickname)
    THEN IF nickname.t # "str"
         THEN [st EXCEPT !.err = "TypeError"]
         ELSE IF Trim(nickname.v) # <<>>
              THEN setVaultDisplayNameAsync(st, Trim(nickname.v), v)
              ELSE setVaultDisplayNameAsync(st, GetName(v), v)
    ELSE setVaultDisplayNameAsync(st, GetName(v), v)

\* loadSettings up to `await this.loadData()`: JSON.parse is given the text
\* of the file as it is, so an empty file raises as a corrupt one does.
loadSharedSettings(st, v) ==
    LET parentFolderName == getVaultParentFolderName(v)
        loadedSharedSettings ==
            IF parentFolderName # <<>>
            THEN PutMember(DEFAULT_SHARED_SETTINGS.m, NICKNAME,
                           JString(parentFolderName))
            ELSE DEFAULT_SHARED_SETTINGS.m
    IN  IF st.file.exists /\ ~JsonParse(st.file.data).ok
        THEN [st EXCEPT !.err = "SyntaxError"]
        ELSE [st EXCEPT !.p.sharedSettings =
                 JObject(IF st.file.exists
                         THEN ObjectAssign(loadedSharedSettings,
                                           JsonParse(st.file.data).val)
                         ELSE loadedSharedSettings)]

\* loadSettings from the result of loadData on.
loadPluginSettings(st, v) ==
    refreshSharedDisplayName(
        [st EXCEPT !.p.settings = IF st.p.data = "null"
                                  THEN DEFAULT_PLUGIN_SETTINGS
                                  ELSE st.p.data], v)

\* saveSettings writing the preference into the record file, next to the
\* nickname.
writeSharedSettingsWithAll(st) ==
    IF ~st.writable THEN [st EXCEPT !.err = "WriteError"]
    ELSE [st EXCEPT !.file =
             File(StringifyIndented(
                      JObject(PutMember(st.p.sharedSettings.m,
                                        OVERRIDE_APP_TITLE,
                                        JString(<<st.p.settings>>))),
                      <<>>))]

\* saveSettings up to `await this.saveData(this.settings)`: the record file
\* is written.
writeSharedSettings(st) ==
    IF ~st.writable THEN [st EXCEPT !.err = "WriteError"]
    ELSE [st EXCEPT !.file =
             File(StringifyIndented(st.p.sharedSettings, <<>>))]

\* saveSettings called by a handler of the settings tab: after the write,
\* saveData is given this.settings and the handler awaits it.
saveSharedSettings(st) ==
    IF writeSharedSettings(st).err # "none" THEN writeSharedSettings(st)
    ELSE [writeSharedSettings(st) EXCEPT !.p.saving = @ \cup {st.p.settings}]

\* onLayoutReady: the interceptor element is put over the vault switcher.
onLayoutReadyShared(st, v) ==
    refreshSharedDisplayName([st EXCEPT !.p.interceptor = TRUE], v)

\* onload after its saveSettings: the settings tab is added and
\* workspace.onLayoutReady runs its callback at once when the layout is
\* ready, and keeps it for later when it is not.
onloadEnd(st, v) ==
    IF st.err # "none" THEN [st EXCEPT !.p.stage = "failed"]
    ELSE IF st.p.layoutReady
    THEN onLayoutReadyShared([st EXCEPT !.p.stage = "on", !.p.tab = TRUE], v)
    ELSE [st EXCEPT !.p.stage = "on", !.p.tab = TRUE, !.p.callback = TRUE]

\* onload from the result of loadData to `await this.saveData(...)`, or to
\* its end when adapter.exists resolved to true.
onloadLoaded(st, exists, v) ==
    IF st.err # "none" THEN [st EXCEPT !.p.stage = "failed"]
    ELSE IF exists THEN onloadEnd(st, v)
    ELSE IF writeSharedSettings(st).err # "none"
    THEN [writeSharedSettings(st) EXCEPT !.p.stage = "failed"]
    ELSE [writeSharedSettings(st) EXCEPT !.p.stage = "saveData"]

\* The waiting setVaultDisplayName calls resumed newest first.
RECURSIVE resumeWaitingNewestFirst(_, _)
resumeWaitingNewestFirst(st, v) ==
    IF st.p.waiting = <<>> THEN st
    ELSE resumeWaitingNewestFirst(
             showVaultDisplayName(
                 [st EXCEPT !.p.waiting = SubSeq(@, 1, Len(@) - 1)],
                 st.p.waiting[Len(st.p.waiting)], v), v)

\* The setVaultDisplayName calls that wait, resumed oldest first when the
\* element has appeared.
RECURSIVE resumeWaiting(_, _)
resumeWaiting(st, v) ==
    IF st.p.waiting = <<>> THEN st
    ELSE resumeWaiting(
             showVaultDisplayName([st EXCEPT !.p.waiting = Tail(@)],
                                  Head(st.p.waiting), v), v)

\* onload up to `await this.loadData()`, in a new instance of the plugin.
onloadStart(st, v) ==
    IF loadSharedSettings(st, v).err # "none"
    THEN [loadSharedSettings(st, v) EXCEPT !.p.stage = "failed"]
    ELSE [loadSharedSettings(st, v) EXCEPT !.p.stage = "loadData"]

\* The rest of a handler that calls saveSettings after a refresh.
thenSaveSharedSettings(st) ==
    IF st.err # "none" THEN st ELSE saveSharedSettings(st)

(***************************************************************************)
(* onVaultSwitcherClicked of this revision: it builds a Menu of its own.   *)
(***************************************************************************)
\* vaultPath.substring(vaultPath.lastIndexOf('/') + 1)
AfterLastSlash(vaultPath) ==
    LET parts == Split(vaultPath, <<"/">>) IN parts[Len(parts)]

\* readUtf8FileSync returns text, so an empty file is skipped; the
\* nickname found is trimmed.
ReadNicknameUtf8(file) ==
    IF ~file.exists \/ file.data = <<>> THEN Absent
    ELSE IF ParsedNickname(JsonParse(file.data)).kind = "present"
    THEN Present(Trim(ParsedNickname(JsonParse(file.data)).name))
    ELSE ParsedNickname(JsonParse(file.data))

\* The lookup of listed workspace w.
SharedVaultNickname(w) ==
    ReadNicknameUtf8(ReadFile(
        NormalizePath(Join(<<basePath[w], VAULT_LOCAL_SETTINGS_FILE_PATH>>,
                           PATH_SEPARATOR))))

\* The item the loop adds for listed workspace w, r being its lookup.
MenuItem(v, w, r) ==
    [title |-> IF r.kind = "present" THEN r.name
               ELSE AfterLastSlash(NormalizePath(basePath[w])),
     checked |-> basePath[w] = basePath[v]]

\* The loop over the listed workspaces from the i-th on: an exception
\* leaves the listener before menu.showAtMouseEvent.
RECURSIVE AddItems(_, _, _)
AddItems(v, items, i) ==
    IF i > Len(VaultList) THEN [items |-> items, err |-> "none"]
    ELSE IF SharedVaultNickname(VaultList[i]).kind \notin {"absent", "present"}
    THEN [items |-> <<>>, err |-> SharedVaultNickname(VaultList[i]).kind]
    ELSE AddItems(v,
                  Append(items, MenuItem(v, VaultList[i],
                                         SharedVaultNickname(VaultList[i]))),
                  i + 1)

\* The item that opens the vault manager, after the separator.
ManageVaults == [title |-> <<"M", "a", "n", "a", "g", "e">>, checked |-> FALSE]

\* The installation of this revision before the host has enabled it.
PluginOff(v) ==
    [stage |-> "off", isEnabled |-> FALSE, sharedSettings |-> Undefined,
     settings |-> "undefined", data |-> "null", saving |-> {},
     tab |-> FALSE, interceptor |-> FALSE, callback |-> FALSE,
     layoutReady |-> FALSE, drawer |-> NoElement,
     title |-> HostTitle(GetName(v)), waiting |-> <<>>,
     menu |-> <<>>, clicked |-> "none", late |-> FALSE]

(***************************************************************************)
(* The context menu of the vault switcher.  context[v] holds clicks, the   *)
(* number of context-clicks so far; menus, the '.menu' elements of the     *)
(* document in document order, each with the click that opened it, whether *)
(* the host has hidden it and not yet removed it, and the clicks whose     *)
(* listeners appended a 'Set nickname' item to it; waits, the promises of  *)
(* waitForElementToBeRemoved and waitForSelector whose timer is pending or *)
(* whose MutationObserver is connected, each with the click of its         *)
(* listener and the menu it waits for.  The listener of the plugin runs on *)
(* the document as the click found it; the host then hides the menu that   *)
(* is open and adds its new menu, and removes a hidden menu later.  The    *)
(* vault switcher has the class 'has-active-menu' while a menu is open.    *)
(***************************************************************************)
MaxClicks == 3

NoContext == [clicks |-> 0, menus |-> <<>>, waits |-> <<>>]

\* The rest of onVaultSwitcherContextMenu once waitForSelector('.menu')
\* has resolved to the first menu of the document: the cloned item is
\* appended to that menu.
appendSetNickname(cx, click) ==
    [cx EXCEPT !.menus[1].items = Append(@, click)]

\* waitForSelector('.menu', 200) and what follows it in the listener of
\* that click: it resolves at once when the document holds a menu, and
\* otherwise starts a timer and an observer.
waitForSelector(cx, click) ==
    IF cx.menus # <<>> THEN appendSetNickname(cx, click)
    ELSE [cx EXCEPT !.waits =
             Append(@, [click |-> click, for |-> "selector", target |-> 0,
                        timer |-> TRUE, observer |-> TRUE,
                        resolved |-> FALSE])]

\* waitForElementToBeRemoved(alreadyOpenMenu, 200): the menu is in the
\* document, so a timer and an observer are started.
waitForElementToBeRemoved(cx, click) ==
    [cx EXCEPT !.waits =
        Append(@, [click |-> click, for |-> "removed",
                   target |-> cx.menus[1].click,
                   timer |-> TRUE, observer |-> TRUE, resolved |-> FALSE])]

\* onVaultSwitcherContextMenu up to its first await that does not resolve
\* at once.
onVaultSwitcherContextMenu(cx, click) ==
    IF \E i \in 1..Len(cx.menus) : ~cx.menus[i].hidden
    THEN waitForElementToBeRemoved(cx, click)
    ELSE waitForSelector(cx, click)

\* The observers run after a change of the document, oldest first, from
\* wait i on: one whose test holds clears its timer, disconnects and
\* resolves its promise, and a listener that awaits the promise goes on.
RECURSIVE observe(_, _)
observe(cx, i) ==
    IF i > Len(cx.waits) THEN cx
    ELSE LET w == cx.waits[i]
             without == [cx EXCEPT !.waits =
                            SubSeq(@, 1, i - 1) \o SubSeq(@, i + 1, Len(@))]
         IN  IF ~w.observer THEN observe(cx, i + 1)
             ELSE IF w.for = "removed"
             THEN IF \E j \in 1..Len(cx.menus) : cx.menus[j].click = w.target
                  THEN observe(cx, i + 1)
                  ELSE IF w.resolved THEN observe(without, i)
                  ELSE observe(waitForSelector(without, w.click), i)
             ELSE IF cx.menus = <<>> THEN observe(cx, i + 1)
                  ELSE IF w.resolved THEN observe(without, i)
                  ELSE observe(appendSetNickname(without, w.click), i)

\* The timer of wait i fires and resolves its promise; the observer stays
\* connected.
timeout(cx, i) ==
    LET w == cx.waits[i]
        fired == [cx EXCEPT !.waits[i].timer = FALSE,
                            !.waits[i].resolved = TRUE]
    IN  IF w.for = "removed"
        THEN waitForSelector(fired, w.click)
        ELSE fired

(***************************************************************************)
(* Initial state: no installation is enabled and no workspace is laid out. *)
(***************************************************************************)
Init ==
    /\ \E m \in Machines :
         /\ basePath = [v \in Vaults |->
                          IF v = "A" THEN m.path
                          ELSE CHOOSE p \in BasePaths(v) : TRUE]
         /\ cwd = m.cwd
         /\ unwritable =
              IF m.readOnly
              THEN {NonEmpty(Split(RecordPathOf(m.path), <<"/">>))} ELSE {}
         /\ fs = [k \in FsPaths |->
                    IF k = NonEmpty(Split(RecordPathOf(m.path), <<"/">>))
                    THEN m.file
                    ELSE IF k = NonEmpty(Split(RecordPathOf(
                                     CHOOSE p \in BasePaths("C") : TRUE), <<"/">>))
                    THEN m.sibling
                    ELSE NoFile]
    /\ context = [v \in Installed |-> NoContext]
    /\ twin = TwinIdle
    /\ plugin = [v \in Installed |-> PluginOff(v)]
    /\ pc = [v \in Installed |-> "off"]
    /\ isEnabled = [v \in Installed |-> FALSE]
    /\ settings = [v \in Installed |-> Undefined]
    /\ vaultSwitcherElement = [v \in Installed |-> FALSE]
    /\ listeners = [v \in Installed |-> <<>>]
    /\ layoutReady = [v \in Installed |-> FALSE]
    /\ drawerName = [v \in Installed |-> NoElement]
    /\ title = [v \in Installed |-> HostTitle(GetName(v))]
    /\ menu = [v \in Installed |-> <<>>]
    /\ loaded = [v \in Installed |-> Loaded("none", "none", FALSE)]
    /\ clicked = [v \in Installed |-> Outcome("none", "none")]
    /\ saved = [v \in Installed |-> NotSaved]

(***************************************************************************)
(* Actions.                                                                *)
(***************************************************************************)
\* The host enables the plugin in v: a new instance runs onload.  When the
\* layout is ready, workspace.onLayoutReady runs its callback at once.
Onload(v) ==
    /\ pc[v] \in {"off", "failed"}
    /\ OnloadEnds(v, onload([Start(v) EXCEPT !.settings = Undefined],
                            layoutReady[v], v))
    /\ isEnabled' = [isEnabled EXCEPT ![v] = TRUE]
    /\ UNCHANGED <<basePath, cwd, unwritable, context, twin, plugin, layoutReady, menu, clicked>>

\* The host disables the plugin in v.
Onunload(v) ==
    /\ pc[v] = "on"
    /\ Commit(v, refreshVaultDisplayName(Start(v), FALSE, v))
    /\ isEnabled' = [isEnabled EXCEPT ![v] = FALSE]
    /\ listeners' = [listeners EXCEPT ![v] =
                        useVaultSwitcherCallbacks(@, vaultSwitcherElement[v],
                                                  FALSE)]
    /\ pc' = [pc EXCEPT ![v] = "off"]
    /\ UNCHANGED <<basePath, cwd, unwritable, context, twin, plugin, vaultSwitcherElement, layoutReady, menu,
                   loaded, clicked>>

\* The host finishes the workspace layout of v and runs the callbacks
\* registered with onLayoutReady.
HostLayoutReady(v) ==
    /\ ~layoutReady[v]
    /\ layoutReady' = [layoutReady EXCEPT ![v] = TRUE]
    /\ LET st0 == [Start(v) EXCEPT !.drawer = Element(GetName(v))] IN
       IF pc[v] = "on"
       THEN /\ Commit(v, refreshVaultDisplayName(st0, isEnabled[v], v))
            /\ vaultSwitcherElement' = [vaultSwitcherElement EXCEPT ![v] = TRUE]
            /\ listeners' = [listeners EXCEPT ![v] =
                                useVaultSwitcherCallbacks(@, TRUE, TRUE)]
       ELSE /\ drawerName' = [drawerName EXCEPT ![v] = st0.drawer]
            /\ UNCHANGED <<settings, fs, title, saved,
                           vaultSwitcherElement, listeners>>
    /\ UNCHANGED <<basePath, cwd, unwritable, context, twin, plugin, pc, isEnabled, menu, loaded, clicked>>

\* The host opens a document in v, writes its own window title and raises
\* 'active-leaf-change'.
ActiveLeafChange(v) ==
    /\ layoutReady[v]
    /\ LET st0 == [Start(v) EXCEPT !.title = HostTitle(GetName(v))] IN
       IF pc[v] = "on"
       THEN Commit(v, refreshVaultDisplayName(st0, isEnabled[v], v))
       ELSE /\ title' = [title EXCEPT ![v] = st0.title]
            /\ UNCHANGED <<settings, fs, drawerName, saved>>
    /\ UNCHANGED <<basePath, cwd, unwritable, context, twin, plugin, pc, isEnabled, vaultSwitcherElement,
                   listeners, layoutReady, menu, loaded, clicked>>

\* The user changes the nickname text field of the settings tab.
EditNickname(v, newValue) ==
    /\ pc[v] = "on"
    /\ layoutReady[v]
    /\ Commit(v, saveSettings(
                    [Start(v) EXCEPT
                       !.settings = JObject(PutMember(settings[v].m, NICKNAME,
                                                      JString(newValue)))],
                    isEnabled[v], v))
    /\ loaded' = [loaded EXCEPT ![v].current = FALSE]
    /\ UNCHANGED <<basePath, cwd, unwritable, context, twin, plugin, pc, isEnabled, vaultSwitcherElement,
                   listeners, layoutReady, menu, clicked>>

\* The parent-folder button without its test of the name: it stores and
\* saves the name also when it is empty.
ClickParentFolderButtonUntested(v) ==
    /\ pc[v] = "on"
    /\ layoutReady[v]
    /\ Commit(v, saveSettings(
                    [Start(v) EXCEPT
                       !.settings = JObject(PutMember(
                           settings[v].m, NICKNAME,
                           JString(getVaultParentFolderName(v))))],
                    isEnabled[v], v))
    /\ loaded' = [loaded EXCEPT ![v].current = FALSE]
    /\ UNCHANGED <<basePath, cwd, unwritable, context, twin, plugin, pc, isEnabled, vaultSwitcherElement,
                   listeners, layoutReady, menu, clicked>>

\* The user clicks the parent-folder button of the settings tab.
ClickParentFolderButton(v) ==
    /\ pc[v] = "on"
    /\ layoutReady[v]
    /\ LET parentFolderName == getVaultParentFolderName(v)
           st0 == [Start(v) EXCEPT
                     !.settings = JObject(PutMember(settings[v].m, NICKNAME,
                                                    JString(parentFolderName)))]
       IN  IF parentFolderName = <<>>
           THEN Commit(v, Start(v)) /\ UNCHANGED loaded
           ELSE /\ Commit(v, saveSettings(st0, isEnabled[v], v))
                /\ loaded' = [loaded EXCEPT ![v].current = FALSE]
    /\ UNCHANGED <<basePath, cwd, unwritable, context, twin, plugin, pc, isEnabled, vaultSwitcherElement,
                   listeners, layoutReady, menu, clicked>>

\* The menu the click listener of v leaves: r is the result of its loop.
ClickEnds(v, r) ==
    /\ menu' = [menu EXCEPT ![v] = r.titles]
    /\ clicked' = [clicked EXCEPT ![v] = Outcome(r.err, "menu")]

\* The user clicks the vault switcher of v: the host opens its menu and the
\* click listener runs.  menuFound is whether waitForSelector('.menu', 100)
\* saw the menu before its timeout.
VaultSwitcherClicked(v, menuFound) ==
    /\ Listening(listeners[v], "click")
    /\ menu[v] = <<>>
    /\ IF menuFound
       THEN ClickEnds(v, ApplyNicknames(HostMenu, 1,
                                        Min(Len(HostMenu), Len(VaultList))))
       ELSE /\ menu' = [menu EXCEPT ![v] = HostMenu]
            /\ clicked' = [clicked EXCEPT ![v] = Outcome("none", "timeout")]
    /\ UNCHANGED <<basePath, cwd, unwritable, context, twin, plugin, fs, pc, isEnabled, settings,
                   vaultSwitcherElement, listeners, layoutReady, drawerName,
                   title, loaded, saved>>

\* The host closes the vault switcher menu of v.
CloseMenu(v) ==
    /\ menu[v] # <<>>
    /\ menu' = [menu EXCEPT ![v] = <<>>]
    /\ clicked' = [clicked EXCEPT ![v] = Outcome("none", "none")]
    /\ UNCHANGED <<basePath, cwd, unwritable, context, twin, plugin, fs, pc, isEnabled, settings,
                   vaultSwitcherElement, listeners, layoutReady, drawerName,
                   title, loaded, saved>>

\* The state a method of the installation in sibling workspace w starts
\* from: the record in its memory is not kept, its window is not modelled.
SiblingStart(w) ==
    [settings |-> Undefined,
     file |-> ReadFile(getSettingsFilePath(w)),
     drawer |-> NoElement, title |-> <<>>, saved |-> NotSaved,
     writable |-> TRUE, err |-> "none", src |-> "none"]

\* The text field onChange of w on the record st its onload loaded.
SiblingEditEnds(w, newValue, st) ==
    /\ st.err = "none"
    /\ fs' = [fs EXCEPT ![FileKey(getSettingsFilePath(w))] =
                 saveSettings(
                     [st EXCEPT
                        !.settings = JObject(PutMember(st.settings.m, NICKNAME,
                                                       JString(newValue)))],
                     TRUE, w).file]

\* The installation in sibling workspace w runs onload in its own process:
\* of its effects, the record file it leaves is kept.
SiblingOnload(w) ==
    /\ ~ReadFile(getSettingsFilePath(w)).exists
    /\ fs' = [fs EXCEPT ![FileKey(getSettingsFilePath(w))] =
                 saveSettingsIfNoFile(
                     loadSettings(SiblingStart(w), TRUE, w), w).file]
    /\ UNCHANGED <<basePath, cwd, unwritable, context, twin, plugin, pc, isEnabled, settings,
                   vaultSwitcherElement, listeners, layoutReady, drawerName,
                   title, menu, loaded, clicked, saved>>

\* The user of sibling workspace w changes the nickname text field there.
\* The record in that installation's memory is the one its file holds.
SiblingEditNickname(w, newValue) ==
    /\ ReadFile(getSettingsFilePath(w)).exists
    /\ SiblingEditEnds(w, newValue, loadSettings(SiblingStart(w), TRUE, w))
    /\ UNCHANGED <<basePath, cwd, unwritable, context, twin, plugin, pc, isEnabled, settings,
                   vaultSwitcherElement, listeners, layoutReady, drawerName,
                   title, menu, loaded, clicked, saved>>

\* The user of the second process on the workspace of v changes the
\* nickname text field there: its saveSettings stringifies the record and
\* writeFileSync opens the record file.
TwinOpen(v, newValue) ==
    /\ twin.pc # "open"
    /\ FileKey(getSettingsFilePath(v)) \notin unwritable
    /\ twin' = [pc |-> "open",
                record |-> JObject(PutMember(<<>>, NICKNAME, JString(newValue))),
                settingsJson |->
                    Stringify(JObject(PutMember(<<>>, NICKNAME,
                                                JString(newValue)))),
                left |-> OpenSync(ReadFile(getSettingsFilePath(v))),
                overlapped |-> FALSE]
    /\ fs' = [fs EXCEPT ![FileKey(getSettingsFilePath(v))] = OpenSync(@)]
    /\ UNCHANGED <<basePath, cwd, unwritable, context, plugin, pc, isEnabled, settings,
                   vaultSwitcherElement, listeners, layoutReady, drawerName,
                   title, menu, loaded, clicked, saved>>

\* writeFileSync of the second process writes its text and closes the
\* file: its saveSettings has completed.
TwinWrite(v) ==
    /\ twin.pc = "open"
    /\ twin' = [twin EXCEPT
                  !.pc = "done",
                  !.overlapped =
                      ReadFile(getSettingsFilePath(v)) # twin.left]
    /\ fs' = [fs EXCEPT ![FileKey(getSettingsFilePath(v))] =
                 WriteSync(@, twin.settingsJson)]
    /\ UNCHANGED <<basePath, cwd, unwritable, context, plugin, pc, isEnabled, settings,
                   vaultSwitcherElement, listeners, layoutReady, drawerName,
                   title, menu, loaded, clicked, saved>>

Next ==
    \/ \E w \in Siblings : SiblingOnload(w)
    \/ \E w \in Siblings, newValue \in SiblingNicknames :
          SiblingEditNickname(w, newValue)
    \/ \E v \in Installed :
        \/ Onload(v)
        \/ Onunload(v)
        \/ HostLayoutReady(v)
        \/ ActiveLeafChange(v)
        \/ \E newValue \in Nicknames : EditNickname(v, newValue)
        \/ ClickParentFolderButton(v)
        \/ \E menuFound \in BOOLEAN : VaultSwitcherClicked(v, menuFound)
        \/ CloseMenu(v)

Spec == Init /\ [][Next]_vars

(***************************************************************************)
(* Actions of the context menu of the vault switcher.                      *)
(***************************************************************************)
\* The state left by a step of the context menu of v.
CommitContext(v, cx) ==
    /\ context' = [context EXCEPT ![v] = cx]
    /\ UNCHANGED <<basePath, cwd, unwritable, twin, plugin, fs, pc, isEnabled,
                   settings, vaultSwitcherElement, listeners, layoutReady,
                   drawerName, title, menu, loaded, clicked, saved>>

\* The user context-clicks the vault switcher of v: the listener of the
\* plugin runs, then the host hides the menu that is open and adds a new
\* one at the end of the document.
ContextClick(v) ==
    /\ Listening(listeners[v], "contextmenu")
    /\ context[v].clicks < MaxClicks
    /\ LET click == context[v].clicks + 1
           listened == onVaultSwitcherContextMenu(
                           [context[v] EXCEPT !.clicks = click], click)
       IN  CommitContext(v, observe(
               [listened EXCEPT !.menus =
                   Append([i \in 1..Len(@) |-> [@[i] EXCEPT !.hidden = TRUE]],
                          [click |-> click, hidden |-> FALSE,
                           items |-> <<>>])], 1))

\* The user dismisses the open context menu of v: the host hides it.
CloseContextMenu(v) ==
    /\ \E i \in 1..Len(context[v].menus) : ~context[v].menus[i].hidden
    /\ CommitContext(v, [context[v] EXCEPT !.menus =
           [i \in 1..Len(@) |-> [@[i] EXCEPT !.hidden = TRUE]]])

\* The host removes hidden menu i of v from the document.
RemoveContextMenu(v, i) ==
    /\ i \in 1..Len(context[v].menus)
    /\ context[v].menus[i].hidden
    /\ CommitContext(v, observe(
           [context[v] EXCEPT !.menus =
               SubSeq(@, 1, i - 1) \o SubSeq(@, i + 1, Len(@))], 1))

\* The 200 ms timer of wait i of v fires.
WaitTimerFires(v, i) ==
    /\ i \in 1..Len(context[v].waits)
    /\ context[v].waits[i].timer
    /\ CommitContext(v, timeout(context[v], i))

NextContext ==
    \E v \in Installed :
        \/ Onload(v)
        \/ HostLayoutReady(v)
        \/ ContextClick(v)
        \/ CloseContextMenu(v)
        \/ \E i \in 1..(2 * MaxClicks) :
              \/ RemoveContextMenu(v, i)
              \/ WaitTimerFires(v, i)

SpecContext == Init /\ [][NextContext]_vars

(***************************************************************************)
(* The first revision with nicknames that hold the title separator.  Each  *)
(* refresh may lengthen the window title, so the text field is taken to be *)
(* edited only while the title has at most MaxTitleLen characters.         *)
(***************************************************************************)
MaxTitleLen == 30

\* Nicknames with and without the separator " - ".
SeparatedNicknames == { <<"n">>, <<"a", " ", "-", " ", "b">> }

\* The user changes the nickname text field of the settings tab.
EditSeparatedNickname(v, newValue) ==
    /\ Len(title[v]) <= MaxTitleLen
    /\ EditNickname(v, newValue)

NextTitle ==
    \E v \in Installed :
        \/ Onload(v)
        \/ HostLayoutReady(v)
        \/ \E newValue \in SeparatedNicknames :
              EditSeparatedNickname(v, newValue)

SpecTitle == Init /\ [][NextTitle]_vars

(***************************************************************************)
(* The first revision when the host may have no vault list.                *)
(***************************************************************************)
\* What the host may answer to the "vault-list" request: the list of
\* VaultList, or null.
VaultListReplies == {"list", "null"}

\* The user clicks the vault switcher of v and the host answers the
\* "vault-list" request with vaults.  After a null reply the listener logs
\* the failure and goes on to Object.keys(vaults), which raises a TypeError
\* before any menu item is looked at.
VaultSwitcherClickedReply(v, menuFound, vaults) ==
    /\ Listening(listeners[v], "click")
    /\ menu[v] = <<>>
    /\ IF ~menuFound
       THEN /\ menu' = [menu EXCEPT ![v] = HostMenu]
            /\ clicked' = [clicked EXCEPT ![v] = Outcome("none", "timeout")]
       ELSE IF vaults = "null"
       THEN /\ menu' = [menu EXCEPT ![v] = HostMenu]
            /\ clicked' = [clicked EXCEPT
                             ![v] = Outcome("TypeError", "vault-list")]
       ELSE ClickEnds(v, ApplyNicknames(HostMenu, 1,
                                        Min(Len(HostMenu), Len(VaultList))))
    /\ UNCHANGED <<basePath, cwd, unwritable, context, twin, plugin, fs, pc,
                   isEnabled, settings, vaultSwitcherElement, listeners,
                   layoutReady, drawerName, title, loaded, saved>>

NextVaultList ==
    \E v \in Installed :
        \/ Onload(v)
        \/ Onunload(v)
        \/ HostLayoutReady(v)
        \/ \E menuFound \in BOOLEAN, vaults \in VaultListReplies :
              VaultSwitcherClickedReply(v, menuFound, vaults)
        \/ CloseMenu(v)

SpecVaultList == Init /\ [][NextVaultList]_vars

(***************************************************************************)
(* Actions of the revision with a title-placement preference.              *)
(***************************************************************************)
\* The state of installation v a method of this revision starts from.
StartShared(v) ==
    [p |-> plugin[v],
     file |-> ReadFile(getSettingsFilePath(v)),
     writable |-> FileKey(getSettingsFilePath(v)) \notin unwritable,
     err |-> "none"]

\* The state left by a method of this revision.
CommitShared(v, st) ==
    /\ plugin' = [plugin EXCEPT ![v] = st.p]
    /\ fs' = [fs EXCEPT ![FileKey(getSettingsFilePath(v))] = st.file]
    /\ UNCHANGED <<basePath, cwd, unwritable, context, twin, pc, isEnabled, settings,
                   vaultSwitcherElement, listeners, layoutReady, drawerName,
                   title, menu, loaded, clicked, saved>>

\* The host enables the plugin in v: a new instance runs onload up to its
\* first await.  It starts once the handlers of the instance before it
\* have ended.
OnloadShared(v) ==
    /\ plugin[v].stage \in {"off", "failed"}
    /\ plugin[v].saving = {}
    /\ plugin[v].waiting = <<>>
    /\ CommitShared(v, onloadStart(
           [StartShared(v) EXCEPT !.p.isEnabled = TRUE,
                                  !.p.sharedSettings = Undefined,
                                  !.p.settings = "undefined",
                                  !.p.tab = FALSE,
                                  !.p.interceptor = FALSE,
                                  !.p.callback = FALSE,
                                  !.p.late = FALSE], v))

\* loadData resolves and onload goes on; exists is what adapter.exists
\* resolves to (FALSE also when it rejects).  The adapter resolves the path
\* it is given inside the vault, so its answer is not tied to the record
\* file.
OnloadData(v, exists) ==
    /\ plugin[v].stage = "loadData"
    /\ CommitShared(v, onloadLoaded(loadPluginSettings(StartShared(v), v),
                                    exists, v))

\* saveData of onload resolves and onload runs to its end.
OnloadSaved(v) ==
    /\ plugin[v].stage = "saveData"
    /\ CommitShared(v, onloadEnd(
           refreshSharedDisplayName(
               [StartShared(v) EXCEPT !.p.data = plugin[v].settings], v), v))

\* The host disables the plugin in v and removes its settings tab.
OnunloadShared(v) ==
    /\ plugin[v].stage = "on"
    /\ CommitShared(v,
           [refreshSharedDisplayName(
                [StartShared(v) EXCEPT !.p.isEnabled = FALSE], v)
            EXCEPT !.p.interceptor = FALSE, !.p.tab = FALSE,
                   !.p.stage = "off"])

\* The host finishes the workspace layout of v: the vault name element
\* appears, the waiting setVaultDisplayName calls resume, and the callback
\* registered with onLayoutReady runs.
LayoutReadyEnds(st, v) ==
    IF st.p.callback
    THEN onLayoutReadyShared([st EXCEPT !.p.callback = FALSE], v)
    ELSE st

HostLayoutReadyShared(v) ==
    /\ ~plugin[v].layoutReady
    /\ CommitShared(v, LayoutReadyEnds(
           resumeWaiting(
               [StartShared(v) EXCEPT !.p.layoutReady = TRUE,
                                      !.p.drawer = Element(GetName(v))], v),
           v))

\* waitForSelector of the oldest waiting setVaultDisplayName call times
\* out: the call ends without showing its name.
WaitTimeout(v) ==
    /\ plugin[v].waiting # <<>>
    /\ CommitShared(v, [StartShared(v) EXCEPT !.p.waiting = Tail(@)])

\* The host opens a document in v, writes its own window title and raises
\* 'active-leaf-change', which the plugin listens to while it is loaded.
ActiveLeafChangeShared(v) ==
    /\ plugin[v].layoutReady
    /\ IF plugin[v].stage = "on"
       THEN CommitShared(v, refreshSharedDisplayName(
                [StartShared(v) EXCEPT !.p.title = HostTitle(GetName(v))], v))
       ELSE CommitShared(v,
                [StartShared(v) EXCEPT !.p.title = HostTitle(GetName(v))])

\* The user changes the nickname text field of the settings tab.
EditSharedNickname(v, newValue) ==
    /\ plugin[v].stage = "on" /\ plugin[v].tab /\ plugin[v].layoutReady
    /\ CommitShared(v, saveSharedSettings(
           [StartShared(v) EXCEPT
              !.p.sharedSettings =
                  JObject(PutMember(plugin[v].sharedSettings.m, NICKNAME,
                                    JString(newValue)))]))

\* The user picks another entry of the 'Nickname in app title' dropdown.
ChangeOverrideAppTitle(v, newValue) ==
    /\ plugin[v].stage = "on" /\ plugin[v].tab /\ plugin[v].layoutReady
    /\ newValue # plugin[v].settings
    /\ CommitShared(v, thenSaveSharedSettings(
           refreshSharedDisplayName(
               [StartShared(v) EXCEPT !.p.settings = newValue], v)))

\* A saveData call of the settings tab resolves: its saveSettings refreshes
\* the display and ends.
SaveDataEnds(v, value) ==
    /\ value \in plugin[v].saving
    /\ CommitShared(v, refreshSharedDisplayName(
           [StartShared(v) EXCEPT !.p.saving = @ \ {value},
                                  !.p.data = value,
                                  !.p.late = plugin[v].stage = "off"], v))

\* The menu the click listener leaves: r is the result of its loop.
SharedMenuEnds(st, r) ==
    IF r.err # "none" THEN [st EXCEPT !.p.clicked = r.err]
    ELSE [st EXCEPT !.p.menu = Append(r.items, ManageVaults),
                    !.p.clicked = "shown"]

\* The user clicks the interceptor element over the vault switcher of v.
SharedVaultSwitcherClicked(v) ==
    /\ plugin[v].interceptor
    /\ plugin[v].clicked = "none"
    /\ CommitShared(v, SharedMenuEnds(StartShared(v), AddItems(v, <<>>, 1)))

\* The menu of v is closed.
CloseSharedMenu(v) ==
    /\ plugin[v].clicked # "none"
    /\ CommitShared(v, [StartShared(v) EXCEPT !.p.menu = <<>>,
                                              !.p.clicked = "none"])
\* The installation of the revision with a title-placement preference.
NextShared ==
    \E v \in Installed :
        \/ OnloadShared(v)
        \/ \E exists \in BOOLEAN : OnloadData(v, exists)
        \/ OnloadSaved(v)
        \/ OnunloadShared(v)
        \/ HostLayoutReadyShared(v)
        \/ WaitTimeout(v)
        \/ ActiveLeafChangeShared(v)
        \/ \E newValue \in SharedNicknames : EditSharedNickname(v, newValue)
        \/ \E newValue \in OverrideAppTitles : ChangeOverrideAppTitle(v, newValue)
        \/ \E value \in OverrideAppTitles : SaveDataEnds(v, value)
        \/ SharedVaultSwitcherClicked(v)
        \/ CloseSharedMenu(v)

SpecShared == Init /\ [][NextShared]_vars

\* Two processes on the workspace of A: the installation of A and the
\* second process each save the record file.
NextWriters ==
    \E v \in Installed :
        \/ Onload(v)
        \/ HostLayoutReady(v)
        \/ \E newValue \in Nicknames : EditNickname(v, newValue)
        \/ \E newValue \in TwinNicknames : TwinOpen(v, newValue)
        \/ TwinWrite(v)

SpecWriters == Init /\ [][NextWriters]_vars

(***************************************************************************)
(* Properties.                                                             *)
(***************************************************************************)
\* The nickname of the record the file of workspace w holds; undefined when
\* the file is missing, is not JSON, or holds no nickname.
FileNickname(w) ==
    LET file == ReadFile(getSettingsFilePath(w))
        parsed == JsonParse(file.data)
    IN  IF file.exists /\ parsed.ok THEN NicknameOf(parsed.val) ELSE Undefined

\* The path segment before the last one: the parent folder of the root.
ParentSegment(v) ==
    LET parts == Split(basePath[v], <<"/">>) IN
    IF Len(parts) >= 2 THEN parts[Len(parts) - 1] ELSE <<>>

NonBlank(s) == \E i \in 1..Len(s) : s[i] \notin WhiteSpace

PLACEHOLDER ==
    <<"M", "y", " ", "V", "a", "u", "l", "t", " ",
      "N", "i", "c", "k", "n", "a", "m", "e">>

IndexOf(w) == CHOOSE i \in 1..Len(VaultList) : VaultList[i] = w

\* The step in which the click listener of v runs on the menu it found.
ClickStep(v) == menu[v] = <<>> /\ clicked'[v].src = "menu"

\* C1: Round trip.  When onload loads a record file that saveSettings wrote
\* for nickname N, loadSettings returns normally and the nickname in memory
\* is N, also when N is empty or holds non-ASCII or escaped characters.
C1_RoundTrip ==
    \A v \in Installed :
        (loaded[v].current /\ saved[v].set /\ loaded[v].src # "missing")
        => /\ loaded[v].err = "none"
           /\ NicknameOf(settings[v]) = saved[v].nickname

\* An onload has parsed a record saved with the empty nickname, and the
\* nickname in memory is empty, not the parent-folder default.
C1_Witness ==
    \E v \in Installed :
        /\ pc[v] = "on" /\ loaded[v].current /\ loaded[v].src = "parsed"
        /\ saved[v].set /\ saved[v].nickname = JString(<<>>)
        /\ NicknameOf(settings[v]) = JString(<<>>)
        /\ getVaultParentFolderName(v) # <<>>

\* C2 (as claimed): when the record file exists and is not valid JSON,
\* loadSettings does not raise to onload and leaves the default record in
\* memory.
C2_CorruptTolerated ==
    \A v \in Installed :
        (loaded[v].current /\ loaded[v].src = "corrupt")
        => /\ loaded[v].err = "none"
           /\ NicknameOf(settings[v]) =
                  JString(IF NonBlank(ParentSegment(v))
                          THEN Trim(ParentSegment(v)) ELSE PLACEHOLDER)

\* C3: Default fallback.  When onload finds no record file and the parent
\* folder of the workspace root has a name that is not blank, the nickname
\* in memory is that name, trimmed; /home/alice/projects/notes gives
\* "projects".
C3_DefaultFallback ==
    \A v \in Installed :
        (loaded[v].current /\ loaded[v].src = "missing"
         /\ NonBlank(ParentSegment(v)))
        => /\ loaded[v].err = "none"
           /\ NicknameOf(settings[v]) = JString(Trim(ParentSegment(v)))
           /\ basePath[v] = HOME_PROJECTS_NOTES
                => NicknameOf(settings[v]) =
                      JString(<<"p", "r", "o", "j", "e", "c", "t", "s">>)

\* An onload of /home/alice/projects/notes found no record file and left
\* the nickname "projects".
C3_Witness ==
    \E v \in Installed :
        /\ pc[v] = "on" /\ loaded[v].current /\ loaded[v].src = "missing"
        /\ basePath[v] = HOME_PROJECTS_NOTES
        /\ NicknameOf(settings[v]) =
              JString(<<"p", "r", "o", "j", "e", "c", "t", "s">>)

C5_Discovery ==
    [][\A v \in Installed, w \in Siblings :
          (ClickStep(v) /\ clicked'[v].err = "none"
           /\ FileNickname(w).t = "str" /\ NonBlank(FileNickname(w).v))
          => menu'[v][IndexOf(w)] = FileNickname(w).v]_vars

\* C6 (as claimed): Lookup trims.  When a sibling's record holds a nickname
\* with whitespace around text, the name the click listener puts on the
\* sibling's menu item is the trimmed nickname.
C6_LookupTrims ==
    [][\A v \in Installed, w \in Siblings :
          (ClickStep(v) /\ FileNickname(w).t = "str"
           /\ NonBlank(FileNickname(w).v)
           /\ menu'[v][IndexOf(w)] # HostMenu[IndexOf(w)])
          => menu'[v][IndexOf(w)] = Trim(FileNickname(w).v)]_vars

\* The record file of w gives no nickname: it is missing or empty, or it
\* parses to a record without a nickname or with a blank one.
NoNicknameIn(w) ==
    LET file == ReadFile(getSettingsFilePath(w))
        parsed == JsonParse(file.data)
    IN  \/ ~file.exists
        \/ file.data = <<>>
        \/ /\ parsed.ok
           /\ \/ NicknameOf(parsed.val) = Undefined
              \/ /\ NicknameOf(parsed.val).t = "str"
                 /\ ~NonBlank(NicknameOf(parsed.val).v)

\* C7 (as claimed): Lookup absent.  For a listed workspace whose record
\* file gives no nickname, the lookup of a click is 'absent': it raises
\* nothing and the item keeps the title the host rendered.
C7_LookupAbsent ==
    [][\A v \in Installed, w \in Vaults :
          (ClickStep(v) /\ NoNicknameIn(w))
          => /\ VaultNickname(w).kind = "absent"
             /\ menu'[v][IndexOf(w)] = HostMenu[IndexOf(w)]]_vars

\* The record file of w exists and does not parse as JSON.
CorruptRecord(w) ==
    LET file == ReadFile(getSettingsFilePath(w)) IN
    file.exists /\ file.data # <<>> /\ ~JsonParse(file.data).ok

\* C8 (as claimed): Corrupt sibling tolerance.  When the record file of one
\* listed workspace does not parse, a click raises nothing, that item keeps
\* its title, and every other listed workspace whose record holds a
\* nickname that is not blank still gets a name on its item.
C8_CorruptSiblingTolerated ==
    [][\A v \in Installed, w \in Vaults :
          (ClickStep(v) /\ CorruptRecord(w))
          => /\ clicked'[v].err = "none"
             /\ menu'[v][IndexOf(w)] = HostMenu[IndexOf(w)]
             /\ \A u \in Vaults \ {w} :
                   (FileNickname(u).t = "str" /\ NonBlank(FileNickname(u).v))
                   => menu'[v][IndexOf(u)] # HostMenu[IndexOf(u)]]_vars

\* C9: Whitespace is unset.  While the plugin is enabled and the vault name
\* element exists, it shows the trimmed nickname when the nickname in
\* memory has a character that is not whitespace, and the folder name of
\* the workspace otherwise.  (A saveSettings that raised did not reach its
\* refreshVaultDisplayName: see C12.)
C9_WhitespaceIsUnset ==
    \A v \in Installed :
        (pc[v] = "on" /\ isEnabled[v] /\ drawerName[v].exists
         /\ ~saved[v].failed)
        => drawerName[v].text =
              IF NonBlank(NicknameOf(settings[v]).v)
              THEN Trim(NicknameOf(settings[v]).v)
              ELSE GetName(v)

\* The nickname in memory is one space and the element shows the folder
\* name "notes".
C9_Witness ==
    \E v \in Installed :
        /\ pc[v] = "on" /\ isEnabled[v]
        /\ NicknameOf(settings[v]) = JString(<<" ">>)
        /\ drawerName[v] = Element(<<"n", "o", "t", "e", "s">>)

\* C10 (as claimed): Every mutation is persisted.  Once onload has
\* completed, and after every settings-form edit, the nickname in the
\* record file equals the nickname in memory, provided writes succeed.
C10_AlwaysPersisted ==
    \A v \in Installed :
        (pc[v] = "on" /\ ~saved[v].failed)
        => FileNickname(v) = NicknameOf(settings[v])

\* C10 (amended): the same, after an onload that found no record file or
\* one whose record holds a nickname, and after every settings-form edit
\* that ran saveSettings and whose write succeeded.
C10_Persisted ==
    \A v \in Installed :
        (pc[v] = "on" /\ ~saved[v].failed
         /\ \/ loaded[v].src = "missing"
            \/ loaded[v].src = "parsed" /\ FileNickname(v) # Undefined
            \/ ~loaded[v].current)
        => FileNickname(v) = NicknameOf(settings[v])

\* A text-field edit has completed after an onload that found an empty
\* record file, and the file holds the edited nickname.
C10_Witness ==
    \E v \in Installed :
        /\ pc[v] = "on" /\ ~loaded[v].current /\ loaded[v].src = "empty"
        /\ ~saved[v].failed
        /\ NicknameOf(settings[v]) \in { JString(n) : n \in Nicknames }
        /\ FileNickname(v) = NicknameOf(settings[v])
\* The record that file holds; undefined when the file is missing or is
\* not JSON.
RecordIn(file) ==
    IF file.exists /\ JsonParse(file.data).ok
    THEN JsonParse(file.data).val ELSE Undefined

\* The record the file of workspace w holds.
FileRecord(w) == RecordIn(ReadFile(getSettingsFilePath(w)))

\* The nickname loadSettings gives a workspace that has no record file.
DefaultNickname(v) ==
    JString(IF NonBlank(ParentSegment(v)) THEN Trim(ParentSegment(v))
            ELSE PLACEHOLDER)

\* What refreshVaultDisplayName is to show for the record in memory.
CurrentDisplayName(v) ==
    IF NonBlank(NicknameOf(settings[v]).v)
    THEN Trim(NicknameOf(settings[v]).v) ELSE GetName(v)

\* C11 (as claimed): Record creation.  After an onload that found no
\* record file has completed, the record file exists and holds the default
\* nickname, and a click that looks the workspace up afterwards puts that
\* nickname on its item.
C11_RecordCreation ==
    [][\A v \in Installed :
          (pc[v] = "on" /\ loaded[v].current /\ loaded[v].src = "missing")
          => /\ ReadFile(getSettingsFilePath(v)).exists
             /\ FileNickname(v) = DefaultNickname(v)
             /\ ClickStep(v)
                  => menu'[v][IndexOf(v)] = DefaultNickname(v).v]_vars

\* C12 (as claimed): Write failure.  After a text-field edit whose write
\* failed, the failure has left saveSettings, the record in memory holds
\* the edited nickname, and the vault name element shows the name of that
\* record.
C12_WriteFailure ==
    \A v \in Installed :
        (pc[v] = "on" /\ isEnabled[v] /\ saved[v].failed
         /\ ~loaded[v].current /\ drawerName[v].exists)
        => drawerName[v].text = CurrentDisplayName(v)

\* C13 (as claimed): Save visibility.  Once saveSettings has written a
\* nickname for a workspace, an onload that starts afterwards leaves that
\* nickname in memory, and a click that starts afterwards shows it on the
\* item of the workspace when it is not blank.
C13_SaveVisibility ==
    [][\A v \in Installed :
          saved[v].set
          => /\ (pc[v] # "on" /\ pc'[v] = "on")
                  => NicknameOf(settings'[v]) = saved[v].nickname
             /\ (ClickStep(v) /\ NonBlank(saved[v].nickname.v))
                  => Trim(menu'[v][IndexOf(v)]) = Trim(saved[v].nickname.v)]_vars

\* A step of the installation in v: one of its handlers runs.
InstallationStep(v) ==
    \/ Onload(v)
    \/ Onunload(v)
    \/ HostLayoutReady(v)
    \/ ActiveLeafChange(v)
    \/ \E newValue \in Nicknames : EditNickname(v, newValue)
    \/ ClickParentFolderButton(v)
    \/ \E menuFound \in BOOLEAN : VaultSwitcherClicked(v, menuFound)

\* C15: Sibling reads are read-only.  No handler of the installation in A
\* creates, changes or deletes the record file of another workspace: the
\* only file a step of A may change is <root of A>/.vault-nickname.
C15_SiblingsReadOnly ==
    [][\A v \in Installed :
          (\/ DOMAIN fs' # DOMAIN fs
           \/ \E k \in DOMAIN fs \ {FileKey(RecordPathOf(basePath[v]))} :
                 fs'[k] # fs[k])
          => ~InstallationStep(v)]_vars

\* A has saved its own record and its click listener has read the record
\* of B, which holds a nickname.
C15_Witness ==
    \E v \in Installed, w \in Siblings :
        /\ saved[v].set
        /\ clicked[v] = Outcome("none", "menu")
        /\ FileNickname(w).t = "str"
        /\ menu[v][IndexOf(w)] = FileNickname(w).v

\* C16: Forward compatibility.  A record file that holds an unrecognized
\* key next to the nickname loads without error and its nickname is used,
\* the lookup of its workspace raises nothing, and the key is kept: it is
\* in memory after the load and in the file, with its value, after every
\* later save.
C16_ForwardCompatible ==
    /\ \A w \in Vaults :
          HasKey(FileRecord(w).m, UNRECOGNIZED)
          => VaultNickname(w).kind \in {"absent", "present"}
    /\ \A v \in Installed :
          /\ (loaded[v].current /\ loaded[v].src # "none"
              /\ HasKey(FileRecord(v).m, UNRECOGNIZED))
             => /\ loaded[v].err = "none"
                /\ NicknameOf(settings[v]) = FileNickname(v)
                /\ GetMember(settings[v].m, UNRECOGNIZED) =
                      GetMember(FileRecord(v).m, UNRECOGNIZED)
          /\ (saved[v].set /\ ~saved[v].failed
              /\ HasKey(saved[v].record.m, UNRECOGNIZED))
             => GetMember(FileRecord(v).m, UNRECOGNIZED) =
                   GetMember(saved[v].record.m, UNRECOGNIZED)

\* A record with the unrecognized key was loaded, a nickname was edited
\* and saved, and the file holds the new nickname next to the key.
C16_Witness ==
    \E v \in Installed :
        /\ pc[v] = "on" /\ saved[v].set /\ ~loaded[v].current
        /\ HasKey(FileRecord(v).m, UNRECOGNIZED)
        /\ FileNickname(v) = JString(<<" ">>)

\* C17: Idempotent save.  When saveSettings is called with the record the
\* call before it wrote, the record file holds after the call the bytes,
\* and so the parsed value, it held before.
C17_IdempotentSave ==
    \A v \in Installed :
        saved[v].again
        => /\ saved[v].prior.exists
           /\ ReadFile(getSettingsFilePath(v)) = saved[v].prior
           /\ FileRecord(v) = saved[v].record

\* The nickname field was set twice in a row to the same text with
\* characters JSON.stringify escapes.
C17_Witness ==
    \E v \in Installed :
        /\ saved[v].again
        /\ saved[v].nickname =
              JString(<<" ", "b", EACUTE, QUOTE, BACKSLASH, " ">>)
\* The step in which writeFileSync of the second process returns.
TwinCompletes == twin.pc = "open" /\ twin'.pc = "done"

\* A step in which a saveSettings of the installation in v wrote the file.
SaveCompletes(v) ==
    saved'[v] # saved[v] /\ saved'[v].set /\ ~saved'[v].failed

\* C14 (as claimed): Last write wins.  When the installation of A and a
\* second process have each saved the record file of A, with different
\* nicknames, the file parses to the record of the save that completed
\* last.
C14_LastWriteWins ==
    [][\A v \in Installed :
          /\ (TwinCompletes /\ saved[v].set /\ ~saved[v].failed
              /\ saved[v].nickname # NicknameOf(twin.record))
             => RecordIn(fs'[FileKey(RecordPathOf(basePath[v]))]) = twin.record
          /\ (SaveCompletes(v) /\ twin.pc = "done"
              /\ saved'[v].nickname # NicknameOf(twin.record))
             => RecordIn(fs'[FileKey(RecordPathOf(basePath[v]))]) =
                   saved'[v].record]_vars

\* C14 (amended): Last write wins between saves that do not overlap.  When
\* the save that completes last writes the file as its own open left it,
\* no other save having written it between that open and that write, the
\* file parses to the record of that save.
C14_LastWriteWinsInTurn ==
    [][\A v \in Installed :
          /\ (TwinCompletes /\ saved[v].set /\ ~saved[v].failed
              /\ saved[v].nickname # NicknameOf(twin.record)
              /\ fs[FileKey(RecordPathOf(basePath[v]))] = twin.left)
             => RecordIn(fs'[FileKey(RecordPathOf(basePath[v]))]) = twin.record
          /\ (SaveCompletes(v) /\ twin.pc = "done"
              /\ saved'[v].nickname # NicknameOf(twin.record))
             => RecordIn(fs'[FileKey(RecordPathOf(basePath[v]))]) =
                   saved'[v].record]_vars

\* The installation of A saved "projects", and then the second process
\* opened the file, wrote the empty nickname and closed it with no write
\* in between: the file holds the record of the second process.
C14_Witness ==
    \E v \in Installed :
        /\ twin.pc = "done" /\ ~twin.overlapped
        /\ saved[v].set /\ ~saved[v].failed
        /\ saved[v].nickname = JString(<<"p", "r", "o", "j", "e", "c", "t", "s">>)
        /\ NicknameOf(twin.record) = JString(<<>>)
        /\ FileRecord(v) = twin.record
\* The parsed content of a file: the type of the value and, of an object,
\* its members without their order.
ParsedContent(file) ==
    [t |-> RecordIn(file).t, v |-> RecordIn(file).v,
     members |-> {RecordIn(file).m[i] : i \in DOMAIN RecordIn(file).m}]

\* The step in which the dropdown onChange of v runs.
DropdownStep(v) ==
    /\ plugin[v].stage = "on" /\ plugin'[v].stage = "on"
    /\ plugin'[v].settings # plugin[v].settings

\* C18 (as claimed): Extension fields stay local.  Changing
\* overrideAppTitle in the settings form does not change the parsed
\* content of the record file.
C18_ExtensionFieldsLocal ==
    [][\A v \in Installed :
          (DropdownStep(v) /\ fs[FileKey(RecordPathOf(basePath[v]))].exists)
          => ParsedContent(fs'[FileKey(RecordPathOf(basePath[v]))]) =
                ParsedContent(fs[FileKey(RecordPathOf(basePath[v]))])]_vars

\* C18 (amended): Changing overrideAppTitle never writes overrideAppTitle
\* to the record file: the file is rewritten with the shared record in
\* memory, so its parsed content is kept whenever the file held that
\* record before.
C18_PreferenceNotShared ==
    [][\A v \in Installed :
          DropdownStep(v)
          => /\ ~HasKey(RecordIn(fs'[FileKey(RecordPathOf(basePath[v]))]).m,
                        OVERRIDE_APP_TITLE)
             /\ ParsedContent(fs[FileKey(RecordPathOf(basePath[v]))]) =
                    ParsedContent(File(Stringify(plugin[v].sharedSettings)))
                => ParsedContent(fs'[FileKey(RecordPathOf(basePath[v]))]) =
                      ParsedContent(fs[FileKey(RecordPathOf(basePath[v]))])]_vars

\* The dropdown was set to 'Vault name first', its saveSettings has ended,
\* and the record file holds the shared record in memory.
C18_Witness ==
    \E v \in Installed :
        /\ plugin[v].stage = "on"
        /\ plugin[v].settings = "override-app-title:vault-first"
        /\ plugin[v].data = "override-app-title:vault-first"
        /\ plugin[v].saving = {}
        /\ ParsedContent(ReadFile(getSettingsFilePath(v))) =
              ParsedContent(File(Stringify(plugin[v].sharedSettings)))

\* The window titles that show the folder name of v.
FolderNameTitles(v) ==
    { HostTitle(GetName(v)),
      Join(<<GetName(v), <<"d", "o", "c">>,
             <<"O", "b", "s", "i", "d", "i", "a", "n">> >>, TITLE_SEPARATOR) }

\* C19: After onunload the displayed vault name is the folder name and
\* stays so.  While the plugin is disabled, the vault name element and the
\* window title show the folder name once no setVaultDisplayName call
\* waits, and the call that waits last carries the folder name, whatever
\* saveSettings or refresh was pending when onunload ran.
C19_DisabledShowsFolderName ==
    \A v \in Installed :
        plugin[v].stage = "off"
        => /\ plugin[v].waiting # <<>>
                => plugin[v].waiting[Len(plugin[v].waiting)] = GetName(v)
           /\ plugin[v].waiting = <<>>
                => /\ plugin[v].title \in FolderNameTitles(v)
                   /\ plugin[v].drawer.exists
                        => plugin[v].drawer.text = GetName(v)

\* A saveData call that was pending at onunload has ended after it, the
\* nickname in memory is not blank, and the element shows the folder name.
C19_Witness ==
    \E v \in Installed :
        /\ plugin[v].stage = "off" /\ plugin[v].late
        /\ plugin[v].saving = {} /\ plugin[v].waiting = <<>>
        /\ NicknameOf(plugin[v].sharedSettings).t = "str"
        /\ NonBlank(NicknameOf(plugin[v].sharedSettings).v)
        /\ plugin[v].drawer = Element(GetName(v))

\* The title the claim gives the item of listed workspace w: the trimmed
\* nickname of the record the lookup reads, or the last path segment.
DisplayNameFor(w) ==
    IF NicknameOf(RecordIn(ReadFile(NormalizePath(
           RecordPathOf(basePath[w]))))).t = "str"
       /\ NonBlank(NicknameOf(RecordIn(ReadFile(NormalizePath(
              RecordPathOf(basePath[w]))))).v)
    THEN Trim(NicknameOf(RecordIn(ReadFile(NormalizePath(
             RecordPathOf(basePath[w]))))).v)
    ELSE GetName(w)

\* The step in which the click listener of this revision runs.
SharedClickStep(v) ==
    plugin[v].clicked = "none" /\ plugin'[v].clicked # "none"

\* C20 (as claimed): displayNameFor in the custom switcher menu.  A click
\* on the interceptor shows the menu with one item per listed workspace,
\* titled with the trimmed nickname of its record or else with its folder
\* name, and checked exactly when it is the workspace of the click.
C20_MenuTitles ==
    [][\A v \in Installed :
          SharedClickStep(v)
          => /\ plugin'[v].clicked = "shown"
             /\ Len(plugin'[v].menu) = Len(VaultList) + 1
             /\ \A i \in 1..Len(VaultList) :
                   /\ plugin'[v].menu[i].title = DisplayNameFor(VaultList[i])
                   /\ plugin'[v].menu[i].checked <=> VaultList[i] = v]_vars
\* C21: Parent-folder button.  A click on the button stores the name of the
\* parent folder of the workspace root as the nickname in memory and, when
\* the write succeeds, in the record file; when that name is empty the
\* click changes neither the nickname in memory, nor the record file, nor
\* the vault name element, nor the window title.
C21_ParentFolderButton ==
    [][\A v \in Installed :
          ClickParentFolderButton(v)
          => IF NonBlank(ParentSegment(v))
             THEN /\ NicknameOf(settings'[v]) = JString(Trim(ParentSegment(v)))
                  /\ \/ saved'[v].failed
                     \/ NicknameOf(RecordIn(
                            fs'[FileKey(RecordPathOf(basePath[v]))]))
                          = JString(Trim(ParentSegment(v)))
             ELSE UNCHANGED <<settings, fs, drawerName, title>>]_vars

\* After a text-field edit the button was clicked: the nickname in memory
\* and in the record file is the parent folder name, which no edit of the
\* text field gives.
C21_Witness ==
    \E v \in Installed :
        /\ pc[v] = "on" /\ ~loaded[v].current
        /\ saved[v].set /\ ~saved[v].failed
        /\ loaded[v].src = "empty"
        /\ NicknameOf(settings[v]) = JString(Trim(ParentSegment(v)))
        /\ FileNickname(v) = JString(Trim(ParentSegment(v)))
        /\ drawerName[v] = Element(Trim(ParentSegment(v)))

\* The window title the preference asks for when the vault name element
\* shows name: <name> - <document> - <version> with vault-first,
\* <document> - <name> - <version> with file-first, and the title the host
\* itself writes with off.
TitleFor(v, preference, name) ==
    LET document == <<"d", "o", "c">>
        version == <<"O", "b", "s", "i", "d", "i", "a", "n">>
    IN  CASE preference = "override-app-title:vault-first" ->
               name \o TITLE_SEPARATOR \o document \o TITLE_SEPARATOR
               \o version
          [] preference = "override-app-title:file-first" ->
               document \o TITLE_SEPARATOR \o name \o TITLE_SEPARATOR
               \o version
          [] OTHER ->
               document \o TITLE_SEPARATOR \o GetName(v) \o TITLE_SEPARATOR
               \o version

\* C22: App-title placement.  While the plugin is loaded and the vault
\* name element exists, the window title is the one the preference asks
\* for, made of the display name the element shows; when loadData finds nothing
\* stored the preference is file-first.
C22_TitlePlacement ==
    \A v \in Installed :
        /\ (plugin[v].stage = "on" /\ plugin[v].drawer.exists)
           => plugin[v].title =
                 TitleFor(v, plugin[v].settings, plugin[v].drawer.text)
        /\ (plugin[v].stage = "saveData" /\ plugin[v].data = "null")
           => plugin[v].settings = "override-app-title:file-first"

\* The preference is vault-first and the title starts with the nickname,
\* which is not the folder name.
C22_Witness ==
    \E v \in Installed :
        /\ plugin[v].stage = "on" /\ plugin[v].isEnabled
        /\ plugin[v].settings = "override-app-title:vault-first"
        /\ plugin[v].drawer = Element(<<"n">>)
        /\ plugin[v].title =
              <<"n", " ", "-", " ", "d", "o", "c", " ", "-", " ",
                "O", "b", "s", "i", "d", "i", "a", "n">>

\* C23: onload never clobbers an existing record.  When onload starts with
\* a record file that holds valid JSON with nickname N and completes, the
\* file still holds the bytes it held, so its parsed nickname is N, and
\* the nickname in memory is N.
C23_NoClobber ==
    [][\A v \in Installed :
          (pc[v] # "on" /\ pc'[v] = "on" /\ FileNickname(v) # Undefined)
          => /\ fs'[FileKey(RecordPathOf(basePath[v]))]
                  = fs[FileKey(RecordPathOf(basePath[v]))]
             /\ NicknameOf(RecordIn(fs'[FileKey(RecordPathOf(basePath[v]))]))
                  = FileNickname(v)
             /\ NicknameOf(settings'[v]) = FileNickname(v)]_vars

\* An onload has completed on a record file written by a later version:
\* the nickname in memory is the one of the file, not the parent-folder
\* default.
C23_Witness ==
    \E v \in Installed :
        /\ pc[v] = "on" /\ loaded[v].current /\ loaded[v].src = "parsed"
        /\ ~saved[v].set
        /\ FileNickname(v) = JString(<<"n">>)
        /\ NicknameOf(settings[v]) = JString(<<"n">>)
        /\ DefaultNickname(v) # JString(<<"n">>)

\* C24 (as claimed): Title rewrite is idempotent.  A handler that calls
\* setVaultDisplayName with the display name the vault name element
\* already shows, on a window title of more than two parts, leaves the
\* title as it is: repeating a refresh never makes the title grow.
C24_TitleIdempotent ==
    [][\A v \in Installed :
          (/\ drawerName[v].exists
           /\ drawerName'[v] = drawerName[v]
           /\ Len(Split(title[v], TITLE_SEPARATOR)) > 2)
          => title'[v] = title[v]]_vars

\* The number of listeners in list for events of that type.
ListenerCount(list, type) ==
    Cardinality({ i \in 1..Len(list) : list[i].type = type })

C26_OneShortcutPerMenu ==
    \A v \in Installed :
        \A i \in 1..Len(context[v].menus) :
            /\ Len(context[v].menus[i].items) <= 1
            /\ \A k \in 1..Len(context[v].menus[i].items) :
                  context[v].menus[i].items[k] = context[v].menus[i].click

\* C28 (as claimed): waitForSelector releases its resources.  Once a
\* promise of waitForSelector has resolved, by a match or by its timeout,
\* its timer is not pending and its MutationObserver is not connected.
C28_WaitReleases ==
    \A v \in Installed :
        \A i \in 1..Len(context[v].waits) :
            (context[v].waits[i].for = "selector"
             /\ context[v].waits[i].resolved)
            => /\ ~context[v].waits[i].timer
               /\ ~context[v].waits[i].observer

C29_EmptyRecordFile ==
    \A v \in Installed :
        (Start(v).file.exists /\ Start(v).file.data = <<>>)
        => /\ loadSettings(Start(v), TRUE, v).err = "none"
           /\ loadSettings(Start(v), TRUE, v).settings =
                 loadSettings([Start(v) EXCEPT !.file = NoFile],
                              TRUE, v).settings
           /\ loadSharedSettings(StartShared(v), v).err = "none"
           /\ loadSharedSettings(StartShared(v), v).p.sharedSettings =
                 loadSharedSettings([StartShared(v) EXCEPT !.file = NoFile],
                                    v).p.sharedSettings

\* C30: when the host answers the "vault-list" request with null, the click
\* listener ends without raising and the menu keeps the titles the host
\* gave its items.
C30_NoVaultList ==
    \A v \in Installed :
        clicked[v].src = "vault-list"
        => /\ clicked[v].err = "none"
           /\ menu[v] = HostMenu

====
